---- MODULE Spec2Model ----
(***************************************************************************)
(* Model of the query-criteria core of service-manager, package query      *)
(* (src/pkg/query/selection.go): the Criterion model and its Validate,     *)
(* mergeCriteria and the context carrier (AddCriteria, CriteriaForContext, *)
(* ContextWithCriteria), the hand-written parser (process, findRightOp)    *)
(* and BuildCriteriaFromRequest with its sort by left operand.             *)
(*                                                                         *)
(* A Go string is a sequence of bytes, each a string of its own: an ASCII   *)
(* character stands for its byte, a byte from 0x80 on is named by its two  *)
(* hexadecimal digits. A Go slice is a header (arr, len, cap) into a heap  *)
(* of backing arrays, so that append's sharing of a backing array is part  *)
(* of the model. mallocHeader is the allocator of the toolchain the        *)
(* program is built with, fixed for a run: whether it puts a header before *)
(* objects with pointers (Go from 1.22 on).                                *)
(***************************************************************************)
EXTENDS Integers, Sequences, FiniteSets, TLC

VARIABLES arrays, ctxs, last, proc, reqs, built, val, db, web, mallocHeader

vars == <<arrays, ctxs, last, proc, reqs, built, val, db, web, mallocHeader>>

(***************************************************************************)
(* Strings                                                                 *)
(***************************************************************************)

\* The printable ASCII characters in code order, from 32 (space) to 126 (~);
\* the double quote (34) and the backtick (96) are not used by the model and
\* only hold their places.
Printable ==
  << " ", "!", "(double quote)", "#", "$", "%", "&", "'", "(", ")", "*", "+", ",", "-", ".", "/",
     "0", "1", "2", "3", "4", "5", "6", "7", "8", "9", ":", ";", "<", "=", ">", "?",
     "@", "A", "B", "C", "D", "E", "F", "G", "H", "I", "J", "K", "L", "M", "N", "O",
     "P", "Q", "R", "S", "T", "U", "V", "W", "X", "Y", "Z", "[", "\\", "]", "^", "_",
     "(backtick)", "a", "b", "c", "d", "e", "f", "g", "h", "i", "j", "k", "l", "m", "n", "o",
     "p", "q", "r", "s", "t", "u", "v", "w", "x", "y", "z", "{", "|", "}", "~" >>

\* The bytes from 0x80 to 0xFF in code order, named by their hexadecimal
\* digits: the bytes of the UTF-8 encodings of the characters outside ASCII.
HighBytes ==
  << "80", "81", "82", "83", "84", "85", "86", "87", "88", "89", "8A", "8B", "8C", "8D", "8E", "8F",
     "90", "91", "92", "93", "94", "95", "96", "97", "98", "99", "9A", "9B", "9C", "9D", "9E", "9F",
     "A0", "A1", "A2", "A3", "A4", "A5", "A6", "A7", "A8", "A9", "AA", "AB", "AC", "AD", "AE", "AF",
     "B0", "B1", "B2", "B3", "B4", "B5", "B6", "B7", "B8", "B9", "BA", "BB", "BC", "BD", "BE", "BF",
     "C0", "C1", "C2", "C3", "C4", "C5", "C6", "C7", "C8", "C9", "CA", "CB", "CC", "CD", "CE", "CF",
     "D0", "D1", "D2", "D3", "D4", "D5", "D6", "D7", "D8", "D9", "DA", "DB", "DC", "DD", "DE", "DF",
     "E0", "E1", "E2", "E3", "E4", "E5", "E6", "E7", "E8", "E9", "EA", "EB", "EC", "ED", "EE", "EF",
     "F0", "F1", "F2", "F3", "F4", "F5", "F6", "F7", "F8", "F9", "FA", "FB", "FC", "FD", "FE", "FF" >>

\* The value of a byte; of the control characters the model has the tab (9),
\* the newline (10) and the carriage return (13).
CharCode(ch) ==
  IF ch = "\n" THEN 10
  ELSE IF ch = "\t" THEN 9
  ELSE IF ch = "\r" THEN 13
  ELSE IF \E k \in 1..Len(Printable) : Printable[k] = ch
  THEN 31 + (CHOOSE k \in 1..Len(Printable) : Printable[k] = ch)
  ELSE 127 + (CHOOSE k \in 1..Len(HighBytes) : HighBytes[k] = ch)

\* Go's s[from:to] on 0-based byte offsets (callers guard the bounds).
Slice(s, from, to) == SubSeq(s, from + 1, to)

\* Go's s[k] on a 0-based offset.
At(s, k) == s[k + 1]

\* The string has a byte at the 0-based offset k, with a value from lo to hi.
ByteIn(s, k, lo, hi) == k < Len(s) /\ CharCode(At(s, k)) >= lo /\ CharCode(At(s, k)) <= hi

\* Two continuation bytes at the offsets k and k + 1.
TwoMore(s, k) == ByteIn(s, k, 128, 191) /\ ByteIn(s, k + 1, 128, 191)

\* The width in bytes of the UTF-8 encoding that starts at the offset p, 0
\* when the bytes there are no well-formed encoding (utf8.DecodeRuneInString).
EncodingWidth(s, p) ==
  CASE ByteIn(s, p, 0, 127) -> 1
    [] ByteIn(s, p, 194, 223) /\ ByteIn(s, p + 1, 128, 191) -> 2
    [] ByteIn(s, p, 224, 224) /\ ByteIn(s, p + 1, 160, 191) /\ ByteIn(s, p + 2, 128, 191) -> 3
    [] ByteIn(s, p, 225, 236) /\ TwoMore(s, p + 1) -> 3
    [] ByteIn(s, p, 237, 237) /\ ByteIn(s, p + 1, 128, 159) /\ ByteIn(s, p + 2, 128, 191) -> 3
    [] ByteIn(s, p, 238, 239) /\ TwoMore(s, p + 1) -> 3
    [] ByteIn(s, p, 240, 240) /\ ByteIn(s, p + 1, 144, 191) /\ TwoMore(s, p + 2) -> 4
    [] ByteIn(s, p, 241, 243) /\ ByteIn(s, p + 1, 128, 191) /\ TwoMore(s, p + 2) -> 4
    [] ByteIn(s, p, 244, 244) /\ ByteIn(s, p + 1, 128, 143) /\ TwoMore(s, p + 2) -> 4
    [] OTHER -> 0

\* A range loop over a string at the byte offset p: the number of bytes the
\* iteration takes, one for bytes that are no well-formed encoding.
RuneWidth(s, p) == IF EncodingWidth(s, p) = 0 THEN 1 ELSE EncodingWidth(s, p)

\* The encoding of utf8.RuneError, U+FFFD.
RuneErrorBytes == <<"EF", "BF", "BD">>

\* What strings.Builder.WriteRune writes for the rune the range loop yields
\* at the offset p: the bytes of the rune, those of U+FFFD for bytes that are
\* no well-formed encoding.
RuneBytes(s, p) ==
  IF EncodingWidth(s, p) = 0 THEN RuneErrorBytes
  ELSE SubSeq(s, p + 1, p + EncodingWidth(s, p))

\* strings.HasPrefix
HasPrefix(s, prefix) ==
  /\ Len(prefix) <= Len(s)
  /\ SubSeq(s, 1, Len(prefix)) = prefix

\* strings.ContainsRune
ContainsRune(s, ch) == \E k \in 1..Len(s) : s[k] = ch

\* Go's < on strings: bytewise lexicographic order.
RECURSIVE StrLess(_, _)
StrLess(s, t) ==
  IF t = <<>> THEN FALSE
  ELSE IF s = <<>> THEN TRUE
  ELSE IF s[1] # t[1] THEN CharCode(s[1]) < CharCode(t[1])
  ELSE StrLess(Tail(s), Tail(t))

(***************************************************************************)
(* Operators, criterion types and the Criterion record                     *)
(***************************************************************************)

EqualsOperator == "="
NotEqualsOperator == "!="
GreaterThanOperator == "gt"
GreaterThanOrEqualOperator == "gte"
LessThanOperator == "lt"
LessThanOrEqualOperator == "lte"
InOperator == "in"
NotInOperator == "notin"
EqualsOrNilOperator == "eqornil"
NoOperator == "nop"

\* The text of an operator, as a Go string.
OpText(op) ==
  CASE op = "=" -> <<"=">>
    [] op = "!=" -> <<"!", "=">>
    [] op = "gt" -> <<"g", "t">>
    [] op = "gte" -> <<"g", "t", "e">>
    [] op = "lt" -> <<"l", "t">>
    [] op = "lte" -> <<"l", "t", "e">>
    [] op = "in" -> <<"i", "n">>
    [] op = "notin" -> <<"n", "o", "t", "i", "n">>
    [] op = "eqornil" -> <<"e", "q", "o", "r", "n", "i", "l">>
    [] op = "nop" -> <<"n", "o", "p">>
    [] OTHER -> <<>>

IsMultiVariate(op) == op = InOperator \/ op = NotInOperator

\* IsNullable taking no operator for nullable.
IsNullableNever(op) == FALSE

IsNullable(op) == op = EqualsOrNilOperator

IsNumeric(op) ==
  \/ op = LessThanOperator
  \/ op = GreaterThanOperator
  \/ op = LessThanOrEqualOperator
  \/ op = GreaterThanOrEqualOperator

\* The operators the parser looks for, in the order it tries them.
operators ==
  << EqualsOperator, NotEqualsOperator, InOperator, NotInOperator,
     GreaterThanOperator, GreaterThanOrEqualOperator, LessThanOperator,
     LessThanOrEqualOperator, EqualsOrNilOperator >>

OpenBracket == "["
CloseBracket == "]"
Separator == "|"
OperandSeparator == " "
Backslash == "\\"

FieldQuery == "fieldQuery"
LabelQuery == "labelQuery"
ResultQuery == "resultQuery"

OrderBy == <<"o", "r", "d", "e", "r", "B", "y">>
Limit == <<"l", "i", "m", "i", "t">>

AscOrder == <<"a", "s", "c">>
DescOrder == <<"d", "e", "s", "c">>

supportedQueryTypes == <<FieldQuery, LabelQuery>>

newCriterion(leftOp, operator, rightOp, criteriaType) ==
  [LeftOp |-> leftOp, Operator |-> operator, RightOp |-> rightOp, Type |-> criteriaType]

ByField(operator, leftOp, rightOp) == newCriterion(leftOp, operator, rightOp, FieldQuery)

ByLabel(operator, leftOp, rightOp) == newCriterion(leftOp, operator, rightOp, LabelQuery)

OrderResultBy(field, orderType) ==
  newCriterion(OrderBy, NoOperator, <<field, orderType>>, ResultQuery)

\* LimitResultBy applied to the decimal text of its integer argument.
LimitResultBy(limitString) ==
  newCriterion(Limit, NoOperator, <<limitString>>, ResultQuery)

(***************************************************************************)
(* strconv.Atoi, strconv.ParseFloat and time.Parse(time.RFC3339, _), as    *)
(* far as Validate uses them: whether the text is accepted.                *)
(***************************************************************************)

Digits == {"0", "1", "2", "3", "4", "5", "6", "7", "8", "9"}

IsDigit(ch) == ch \in Digits

DigitVal(ch) == CharCode(ch) - CharCode("0")

AllDigits(s) == \A k \in 1..Len(s) : IsDigit(s[k])

IsSign(ch) == ch = "+" \/ ch = "-"

StripSign(s) == IF s # <<>> /\ IsSign(s[1]) THEN Tail(s) ELSE s

\* The number of characters at the start of s that satisfy Test.
PrefixRun(s, Test(_)) ==
  IF \A k \in 1..Len(s) : Test(s[k]) THEN Len(s)
  ELSE (CHOOSE k \in 1..Len(s) : ~Test(s[k]) /\ \A m \in 1..(k - 1) : Test(s[m])) - 1

IsZero(ch) == ch = "0"

StripZeros(s) == SubSeq(s, PrefixRun(s, IsZero) + 1, Len(s))

\* math.MaxInt64 and -math.MinInt64 in decimal.
MaxInt64Text ==
  <<"9", "2", "2", "3", "3", "7", "2", "0", "3", "6", "8", "5", "4", "7", "7", "5", "8", "0", "7">>
MinInt64Text ==
  <<"9", "2", "2", "3", "3", "7", "2", "0", "3", "6", "8", "5", "4", "7", "7", "5", "8", "0", "8">>

\* The decimal digits z, without leading zeros, do not exceed bound.
WithinBound(z, bound) ==
  \/ Len(z) < Len(bound)
  \/ Len(z) = Len(bound) /\ ~StrLess(bound, z)

\* The text after the sign is one or more decimal digits within the range.
AtoiDigitsOk(d, bound) == d # <<>> /\ AllDigits(d) /\ WithinBound(StripZeros(d), bound)

\* strconv.Atoi returns no error: an optional sign, then one or more decimal
\* digits, the value within the 64-bit int range.
AtoiOk(s) ==
  AtoiDigitsOk(StripSign(s), IF s # <<>> /\ s[1] = "-" THEN MinInt64Text ELSE MaxInt64Text)

\* The integer strconv.Atoi returned is below 1 (for a text AtoiOk accepts).
AtoiBelowOne(s) == s[1] = "-" \/ StripZeros(StripSign(s)) = <<>>

\* ASCII lower case of one character.
Lower(ch) ==
  IF ch \in {"A", "B", "C", "D", "E", "F", "G", "H", "I", "J", "K", "L", "M",
             "N", "O", "P", "Q", "R", "S", "T", "U", "V", "W", "X", "Y", "Z"}
  THEN Printable[CharCode(ch) - 31 + 32]
  ELSE ch

ToLower(s) == [k \in 1..Len(s) |-> Lower(s[k])]

IsInfinityText(body) ==
  body \in {<<"i", "n", "f">>, <<"i", "n", "f", "i", "n", "i", "t", "y">>}

\* strconv's special(): "inf" and "infinity" with an optional sign, "nan"
\* without one, in any letter case.
IsSpecialFloat(s) == IsInfinityText(ToLower(StripSign(s))) \/ ToLower(s) = <<"n", "a", "n">>

\* The length of the longest prefix of s made of decimal digits.
DigitRun(s) == PrefixRun(s, IsDigit)

\* The decimal exponent as strconv's readFloat accumulates it: it stops
\* growing once it has reached ExpCap.
ExpCap == 10000
RECURSIVE ExpValue(_, _)
ExpValue(s, acc) ==
  IF s = <<>> THEN acc
  ELSE ExpValue(Tail(s), IF acc < ExpCap THEN acc * 10 + DigitVal(s[1]) ELSE acc)

\* The decimal digits of 2^1024 - 2^970, half a unit in the last place above
\* math.MaxFloat64 and the least magnitude that rounds to infinity (to the
\* even neighbour); it has MaxFloatDigits digits, all before the decimal point.
FloatOverflowText ==
  <<"1", "7", "9", "7", "6", "9", "3", "1", "3", "4", "8", "6", "2", "3", "1", "5",
    "8", "0", "7", "9", "3", "7", "2", "8", "9", "7", "1", "4", "0", "5", "3", "0",
    "3", "4", "1", "5", "0", "7", "9", "9", "3", "4", "1", "3", "2", "7", "1", "0",
    "0", "3", "7", "8", "2", "6", "9", "3", "6", "1", "7", "3", "7", "7", "8", "9",
    "8", "0", "4", "4", "4", "9", "6", "8", "2", "9", "2", "7", "6", "4", "7", "5",
    "0", "9", "4", "6", "6", "4", "9", "0", "1", "7", "9", "7", "7", "5", "8", "7",
    "2", "0", "7", "0", "9", "6", "3", "3", "0", "2", "8", "6", "4", "1", "6", "6",
    "9", "2", "8", "8", "7", "9", "1", "0", "9", "4", "6", "5", "5", "5", "5", "4",
    "7", "8", "5", "1", "9", "4", "0", "4", "0", "2", "6", "3", "0", "6", "5", "7",
    "4", "8", "8", "6", "7", "1", "5", "0", "5", "8", "2", "0", "6", "8", "1", "9",
    "0", "8", "9", "0", "2", "0", "0", "0", "7", "0", "8", "3", "8", "3", "6", "7",
    "6", "2", "7", "3", "8", "5", "4", "8", "4", "5", "8", "1", "7", "7", "1", "1",
    "5", "3", "1", "7", "6", "4", "4", "7", "5", "7", "3", "0", "2", "7", "0", "0",
    "6", "9", "8", "5", "5", "5", "7", "1", "3", "6", "6", "9", "5", "9", "6", "2",
    "2", "8", "4", "2", "9", "1", "4", "8", "1", "9", "8", "6", "0", "8", "3", "4",
    "9", "3", "6", "4", "7", "5", "2", "9", "2", "7", "1", "9", "0", "7", "4", "1",
    "6", "8", "4", "4", "4", "3", "6", "5", "5", "1", "0", "7", "0", "4", "3", "4",
    "2", "7", "1", "1", "5", "5", "9", "6", "9", "9", "5", "0", "8", "0", "9", "3",
    "0", "4", "2", "8", "8", "0", "1", "7", "7", "9", "0", "4", "1", "7", "4", "4",
    "9", "7", "7", "9", "2">>
MaxFloatDigits == 309

\* Of two digit texts of the same length the first is the smaller number.
DigitsLess(a, b) ==
  \E k \in 1..Len(a) :
    /\ DigitVal(a[k]) < DigitVal(b[k])
    /\ \A m \in 1..(k - 1) : a[m] = b[m]

\* The significant digits d, read as 0.d, are at least the overflow text
\* read the same way; n is the shorter of the two lengths. With equal first
\* n digits the longer text is the larger unless its other digits are zeros.
AtLeastOverflowText(d, n) ==
  /\ ~DigitsLess(SubSeq(d, 1, n), SubSeq(FloatOverflowText, 1, n))
  /\ \/ SubSeq(d, 1, n) # SubSeq(FloatOverflowText, 1, n)
     \/ \A k \in (n + 1)..Len(FloatOverflowText) : FloatOverflowText[k] = "0"

\* The value 0.d * 10^mag (d without leading zeros) overflows float64.
MagnitudeOverflows(d, mag) ==
  /\ d # <<>>
  /\ \/ mag > MaxFloatDigits
     \/ /\ mag = MaxFloatDigits
        /\ AtLeastOverflowText(d, IF Len(d) < Len(FloatOverflowText) THEN Len(d)
                                  ELSE Len(FloatOverflowText))

\* The decimal value with the given digits before and after the point and
\* the given exponent overflows float64 (strconv.ErrRange).
FloatOverflows(int, frac, exp) ==
  MagnitudeOverflows(StripZeros(int \o frac),
                     Len(StripZeros(int \o frac)) - Len(frac) + exp)

\* The exponent part: nothing, or e or E, an optional sign and digits.
ExponentDigitsOk(int, frac, digits, negative) ==
  /\ digits # <<>>
  /\ AllDigits(digits)
  /\ ~FloatOverflows(int, frac, IF negative THEN 0 - ExpValue(digits, 0)
                                ELSE ExpValue(digits, 0))

ExponentOk(int, frac, rest) ==
  /\ Len(int) + Len(frac) > 0
  /\ IF rest = <<>> THEN ~FloatOverflows(int, frac, 0)
     ELSE /\ Lower(rest[1]) = "e"
          /\ ExponentDigitsOk(int, frac, StripSign(Tail(rest)),
                              Len(rest) > 1 /\ rest[2] = "-")

\* The fraction part, after the point.
FractionOk(int, afterDot, nf) ==
  ExponentOk(int, SubSeq(afterDot, 1, nf), SubSeq(afterDot, nf + 1, Len(afterDot)))

\* The mantissa: ni digits, then an optional point and more digits.
MantissaOk(body, ni) ==
  IF Len(body) > ni /\ body[ni + 1] = "."
  THEN FractionOk(SubSeq(body, 1, ni), SubSeq(body, ni + 2, Len(body)),
                  DigitRun(SubSeq(body, ni + 2, Len(body))))
  ELSE ExponentOk(SubSeq(body, 1, ni), <<>>, SubSeq(body, ni + 1, Len(body)))

\* Hexadecimal digits and their values.
IsHexDigit(ch) == IsDigit(ch) \/ Lower(ch) \in {"a", "b", "c", "d", "e", "f"}

HexVal(ch) == IF IsDigit(ch) THEN DigitVal(ch) ELSE CharCode(Lower(ch)) - CharCode("a") + 10

\* The length of the longest prefix of s made of hexadecimal digits.
HexRun(s) == PrefixRun(s, IsHexDigit)

\* The bits of hexadecimal digits, four for each, the highest first.
RECURSIVE HexBits(_)
HexBits(d) ==
  IF d = <<>> THEN <<>>
  ELSE << HexVal(d[1]) \div 8, (HexVal(d[1]) \div 4) % 2, (HexVal(d[1]) \div 2) % 2,
          HexVal(d[1]) % 2 >> \o HexBits(Tail(d))

RECURSIVE StripZeroBits(_)
StripZeroBits(bits) ==
  IF bits # <<>> /\ bits[1] = 0 THEN StripZeroBits(Tail(bits)) ELSE bits

\* float64: the exponent of the least power of two that overflows, and the
\* number of leading one bits (the 53 of the mantissa and the rounding bit)
\* with which a value just below that power rounds up to it.
MaxFloatBits == 1024
RoundUpBits == 54

\* The value 0.bits * 2^mag (bits in binary, starting with a one) overflows
\* float64 in atofHex, which rounds to nearest even.
BitsOverflow(bits, mag) ==
  /\ bits # <<>>
  /\ \/ mag > MaxFloatBits
     \/ /\ mag = MaxFloatBits
        /\ Len(bits) >= RoundUpBits
        /\ \A k \in 1..RoundUpBits : bits[k] = 1

\* The hexadecimal value with the given digits before and after the point
\* and the given binary exponent overflows float64.
HexOverflows(int, frac, exp) ==
  BitsOverflow(StripZeroBits(HexBits(int \o frac)),
               Len(StripZeroBits(HexBits(int \o frac))) - 4 * Len(frac) + exp)

\* The exponent of a hexadecimal mantissa, which is required: p or P, an
\* optional sign and decimal digits.
HexExponentDigitsOk(int, frac, digits, negative) ==
  /\ digits # <<>>
  /\ AllDigits(digits)
  /\ ~HexOverflows(int, frac, IF negative THEN 0 - ExpValue(digits, 0)
                              ELSE ExpValue(digits, 0))

HexExponentOk(int, frac, rest) ==
  /\ Len(int) + Len(frac) > 0
  /\ rest # <<>>
  /\ Lower(rest[1]) = "p"
  /\ HexExponentDigitsOk(int, frac, StripSign(Tail(rest)), Len(rest) > 1 /\ rest[2] = "-")

HexFractionOk(int, afterDot, nf) ==
  HexExponentOk(int, SubSeq(afterDot, 1, nf), SubSeq(afterDot, nf + 1, Len(afterDot)))

\* The hexadecimal mantissa after 0x: ni digits, an optional point and more
\* digits.
HexMantissaOk(body, ni) ==
  IF Len(body) > ni /\ body[ni + 1] = "."
  THEN HexFractionOk(SubSeq(body, 1, ni), SubSeq(body, ni + 2, Len(body)),
                     HexRun(SubSeq(body, ni + 2, Len(body))))
  ELSE HexExponentOk(SubSeq(body, 1, ni), <<>>, SubSeq(body, ni + 1, Len(body)))

\* readFloat on the text after the sign, underscores left out: with the
\* prefix 0x or 0X before at least one more character the number is
\* hexadecimal, otherwise decimal.
UnsignedFloatOk(body) ==
  IF Len(body) > 2 /\ body[1] = "0" /\ Lower(body[2]) = "x"
  THEN HexMantissaOk(SubSeq(body, 3, Len(body)), HexRun(SubSeq(body, 3, Len(body))))
  ELSE MantissaOk(body, DigitRun(body))

\* The characters after which strconv's underscoreOK has saw = '0'.
IsDigitLike(ch, hex) == IsDigit(ch) \/ (hex /\ IsHexDigit(ch))

\* The loop of strconv's underscoreOK, saw being "0" (after the base prefix)
\* or "^" at its start: the loop sets saw to '0' at a digit, to '_' at an
\* underscore, which it refuses unless saw is '0', and refuses any other
\* character, and the end of the text, when saw is '_'. So every underscore
\* must follow a digit (or the base prefix) and be followed by a digit.
UnderscoreScan(s, saw, hex) ==
  \A k \in 1..Len(s) :
    s[k] = "_" =>
      /\ IF k = 1 THEN saw = "0" ELSE IsDigitLike(s[k - 1], hex)
      /\ k < Len(s)
      /\ IsDigitLike(s[k + 1], hex)

\* underscoreOK on the text after the optional sign.
UnsignedUnderscoreOk(body) ==
  IF Len(body) >= 2 /\ body[1] = "0" /\ Lower(body[2]) \in {"b", "o", "x"}
  THEN UnderscoreScan(SubSeq(body, 3, Len(body)), "0", Lower(body[2]) = "x")
  ELSE UnderscoreScan(body, "^", FALSE)

underscoreOK(s) == UnsignedUnderscoreOk(StripSign(s))

WithoutUnderscores(s) == SelectSeq(s, LAMBDA ch : ch # "_")

\* strconv.ParseFloat(s, 64) returns no error: a special value, or a decimal
\* or hexadecimal floating-point text whose value does not overflow.
\* readFloat skips underscores, which underscoreOK then has to allow.
ParseFloatOk(s) ==
  \/ IsSpecialFloat(s)
  \/ /\ underscoreOK(s)
     /\ UnsignedFloatOk(StripSign(WithoutUnderscores(s)))

isNumeric(str) == AtoiOk(str) \/ ParseFloatOk(str)

\* The value of a short run of decimal digits.
RECURSIVE NumVal(_)
NumVal(s) == IF s = <<>> THEN 0 ELSE NumVal(SubSeq(s, 1, Len(s) - 1)) * 10 + DigitVal(s[Len(s)])

IsLeap(year) == year % 4 = 0 /\ (year % 100 # 0 \/ year % 400 = 0)

DaysIn(month, year) ==
  IF month = 2 THEN (IF IsLeap(year) THEN 29 ELSE 28)
  ELSE IF month \in {4, 6, 9, 11} THEN 30 ELSE 31

\* The zone of an RFC3339 time: "Z", or a sign, two digits, a colon and two
\* digits, the hours at most 24 and the minutes at most 60.
IsZone(z) ==
  \/ z = <<"Z">>
  \/ /\ Len(z) = 6
     /\ IsSign(z[1])
     /\ IsDigit(z[2]) /\ IsDigit(z[3])
     /\ z[4] = ":"
     /\ IsDigit(z[5]) /\ IsDigit(z[6])
     /\ NumVal(SubSeq(z, 2, 3)) <= 24
     /\ NumVal(SubSeq(z, 5, 6)) <= 60

\* What follows the seconds: an optional fraction (a period or a comma and
\* one or more digits), then the zone.
IsFractionAndZone(t) ==
  IsZone(IF Len(t) >= 2 /\ t[1] \in {".", ","} /\ IsDigit(t[2])
         THEN SubSeq(t, 2 + DigitRun(Tail(t)), Len(t))
         ELSE t)

\* The date: a day of the month of the year.
IsDate(year, month, day) ==
  /\ month >= 1 /\ month <= 12
  /\ day >= 1 /\ day <= DaysIn(month, year)

\* After the hour: minutes and seconds of two digits each, then the rest.
IsMinutesSeconds(t) ==
  /\ Len(t) >= 6
  /\ t[1] = ":" /\ IsDigit(t[2]) /\ IsDigit(t[3])
  /\ t[4] = ":" /\ IsDigit(t[5]) /\ IsDigit(t[6])
  /\ NumVal(SubSeq(t, 2, 3)) < 60
  /\ NumVal(SubSeq(t, 5, 6)) < 60
  /\ IsFractionAndZone(SubSeq(t, 7, Len(t)))

\* The time of day, its hour written with nh digits.
IsClock(clock, nh) ==
  /\ nh >= 1
  /\ NumVal(SubSeq(clock, 1, nh)) < 24
  /\ IsMinutesSeconds(SubSeq(clock, nh + 1, Len(clock)))

\* time.Parse with the layout 2006-01-02T15:04:05Z07:00 returns no error.
\* The hour may be written with one digit, as the layout element 15 allows.
isDateTime(str) ==
  /\ Len(str) >= 11
  /\ AllDigits(SubSeq(str, 1, 4))
  /\ str[5] = "-"
  /\ AllDigits(SubSeq(str, 6, 7))
  /\ str[8] = "-"
  /\ AllDigits(SubSeq(str, 9, 10))
  /\ str[11] = "T"
  /\ IsDate(NumVal(SubSeq(str, 1, 4)), NumVal(SubSeq(str, 6, 7)), NumVal(SubSeq(str, 9, 10)))
  /\ IsClock(SubSeq(str, 12, Len(str)),
             IF DigitRun(SubSeq(str, 12, Len(str))) >= 2 THEN 2
             ELSE DigitRun(SubSeq(str, 12, Len(str))))

(***************************************************************************)
(* Criterion.Validate                                                      *)
(***************************************************************************)

\* The outcome of a call: kind is "nil" (no error), "UnsupportedQueryError",
\* "error" (a plain error value) or "panic" (a run-time fault); msg tells the
\* messages apart and arg is the text the message quotes.
Outcome(kind, msg, arg) == [kind |-> kind, msg |-> msg, arg |-> arg]

NoError == Outcome("nil", "", <<>>)

Unsupported(msg, arg) == Outcome("UnsupportedQueryError", msg, arg)

Panic(msg) == Outcome("panic", msg, <<>>)

\* strings.FieldsFunc(s, r == Separator): the maximal runs of characters
\* other than the separator.
RECURSIVE FieldsFunc(_, _, _)
FieldsFunc(s, cur, acc) ==
  IF s = <<>> THEN (IF cur = <<>> THEN acc ELSE Append(acc, cur))
  ELSE IF s[1] = Separator
       THEN FieldsFunc(Tail(s), <<>>, IF cur = <<>> THEN acc ELSE Append(acc, cur))
       ELSE FieldsFunc(Tail(s), Append(cur, s[1]), acc)

\* ValidateResultQuery asking orderBy for three operands.
ValidateResultQueryThreeOperands(c) ==
  IF c.LeftOp = Limit /\ Len(c.RightOp) = 0 THEN Panic("index out of range")
  ELSE IF c.LeftOp = Limit /\ ~AtoiOk(c.RightOp[1])
  THEN Outcome("error", "could not cast string to int", c.RightOp[1])
  ELSE IF c.LeftOp = Limit /\ AtoiBelowOne(c.RightOp[1])
  THEN Unsupported("limit is invalid", c.RightOp[1])
  ELSE IF c.LeftOp = OrderBy /\ Len(c.RightOp) < 1
  THEN Unsupported("order by expects field and order type", <<>>)
  ELSE IF c.LeftOp = OrderBy /\ Len(c.RightOp) < 3
  THEN Unsupported("order by expects order type", c.RightOp[1])
  ELSE NoError

\* Validate for a result query.
ValidateResultQuery(c) ==
  IF c.LeftOp = Limit /\ Len(c.RightOp) = 0 THEN Panic("index out of range")
  ELSE IF c.LeftOp = Limit /\ ~AtoiOk(c.RightOp[1])
  THEN Outcome("error", "could not cast string to int", c.RightOp[1])
  ELSE IF c.LeftOp = Limit /\ AtoiBelowOne(c.RightOp[1])
  THEN Unsupported("limit is invalid", c.RightOp[1])
  ELSE IF c.LeftOp = OrderBy /\ Len(c.RightOp) < 1
  THEN Unsupported("order by expects field and order type", <<>>)
  ELSE IF c.LeftOp = OrderBy /\ Len(c.RightOp) < 2
  THEN Unsupported("order by expects order type", c.RightOp[1])
  ELSE NoError

\* The answer of Validate for a left operand holding the separator: parts
\* are the fields of the left operand between separators.
SeparatorOutcome(parts) ==
  IF Len(parts) = 0 THEN Panic("index out of range")
  ELSE Unsupported("separator is not allowed in left operand", parts[Len(parts)])

\* The first right operand holding a new line.
FirstWithNewLine(rightOp) ==
  rightOp[CHOOSE k \in 1..Len(rightOp) :
            /\ ContainsRune(rightOp[k], "\n")
            /\ \A m \in 1..(k - 1) : ~ContainsRune(rightOp[m], "\n")]

\* ValidateQuery with a numeric guard that does not try the operand as a time.
ValidateQueryNumbersOnly(c) ==
  IF Len(c.RightOp) > 1 /\ ~IsMultiVariate(c.Operator)
  THEN Unsupported("multiple values for single value operation", <<>>)
  ELSE IF IsNullable(c.Operator) /\ c.Type # FieldQuery
  THEN Unsupported("nullable operations are supported only for field queries", <<>>)
  ELSE IF IsNumeric(c.Operator) /\ Len(c.RightOp) = 0
  THEN Panic("index out of range")
  ELSE IF IsNumeric(c.Operator) /\ ~isNumeric(c.RightOp[1])
  THEN Unsupported("right operand is not numeric or datetime", c.RightOp[1])
  ELSE IF ContainsRune(c.LeftOp, Separator)
  THEN SeparatorOutcome(FieldsFunc(c.LeftOp, <<>>, <<>>))
  ELSE IF \E k \in 1..Len(c.RightOp) : ContainsRune(c.RightOp[k], "\n")
  THEN Unsupported("forbidden new line character", FirstWithNewLine(c.RightOp))
  ELSE NoError

\* Validate for a field or label query.
ValidateQuery(c) ==
  IF Len(c.RightOp) > 1 /\ ~IsMultiVariate(c.Operator)
  THEN Unsupported("multiple values for single value operation", <<>>)
  ELSE IF IsNullable(c.Operator) /\ c.Type # FieldQuery
  THEN Unsupported("nullable operations are supported only for field queries", <<>>)
  ELSE IF IsNumeric(c.Operator) /\ Len(c.RightOp) = 0
  THEN Panic("index out of range")
  ELSE IF IsNumeric(c.Operator) /\ ~isNumeric(c.RightOp[1]) /\ ~isDateTime(c.RightOp[1])
  THEN Unsupported("right operand is not numeric or datetime", c.RightOp[1])
  ELSE IF ContainsRune(c.LeftOp, Separator)
  THEN SeparatorOutcome(FieldsFunc(c.LeftOp, <<>>, <<>>))
  ELSE IF \E k \in 1..Len(c.RightOp) : ContainsRune(c.RightOp[k], "\n")
  THEN Unsupported("forbidden new line character", FirstWithNewLine(c.RightOp))
  ELSE NoError

Validate(c) == IF c.Type = ResultQuery THEN ValidateResultQuery(c) ELSE ValidateQuery(c)

(***************************************************************************)
(* Go slices of Criterion: a header into a heap of backing arrays          *)
(***************************************************************************)

\* The size in bytes of a Criterion on a 64-bit build: three strings of 16
\* bytes and one slice of 24.
CriterionSize == 72

\* The allocator's size classes up to 2048 bytes.
SizeClasses ==
  << 8, 16, 24, 32, 48, 64, 80, 96, 112, 128, 144, 160, 176, 192, 208, 224, 240,
     256, 288, 320, 352, 384, 416, 448, 480, 512, 576, 640, 704, 768, 896, 1024,
     1152, 1280, 1408, 1536, 1792, 2048 >>

\* The size class of a request: the least class that holds it.
SizeClass(reqSize) ==
  SizeClasses[CHOOSE k \in 1..Len(SizeClasses) :
                /\ SizeClasses[k] >= reqSize
                /\ \A m \in 1..(k - 1) : SizeClasses[m] < reqSize]

\* runtime.roundupsize for an array of Criterion, which holds pointers, of
\* the sizes the model allocates. Up to Go 1.21 it is the size class of the
\* size. From Go 1.22 on an object with pointers of more than 512 bytes has
\* a malloc header of 8 bytes, which is added to the size before the class
\* is taken and subtracted from the class; mallocHeader tells which
\* allocator the build has.
RoundUpSize(size) ==
  IF mallocHeader /\ size > 512
  THEN SizeClass(size + 8) - 8
  ELSE SizeClass(size)

\* runtime.growslice: the capacity of the array append allocates when the
\* needed length exceeds the capacity (below the doubling threshold): the
\* number of elements that fit in the size roundupsize gives.
GrowCap(oldCap, needed) ==
  LET newcap == IF needed > 2 * oldCap THEN needed ELSE 2 * oldCap
  IN RoundUpSize(newcap * CriterionSize) \div CriterionSize

\* The zero value of Criterion, held by array slots not yet written.
ZeroCriterion == newCriterion(<<>>, "", <<>>, "")

\* The header of a nil or empty slice that owns no array.
NilSlice == [arr |-> 0, len |-> 0, cap |-> 0]

\* The elements of a slice.
ReadSlice(arrs, h) == IF h.len = 0 THEN <<>> ELSE SubSeq(arrs[h.arr], 1, h.len)

\* A slice literal: a new array holding xs, with spare unused slots.
NewSlice(arrs, xs, spare) ==
  IF Len(xs) + spare = 0 THEN [arrays |-> arrs, slice |-> NilSlice]
  ELSE [ arrays |-> Append(arrs, xs \o [k \in 1..spare |-> ZeroCriterion]),
         slice |-> [arr |-> Len(arrs) + 1, len |-> Len(xs), cap |-> Len(xs) + spare] ]

\* append(h, xs...): within the capacity the elements are written into the
\* array h points to, past h's length; otherwise a new array is allocated.
\* inplace tells which.
GoAppend(arrs, h, xs) ==
  IF h.len + Len(xs) <= h.cap
  THEN [ arrays |-> IF Len(xs) = 0 THEN arrs
                    ELSE [arrs EXCEPT ![h.arr] =
                            [k \in 1..h.cap |->
                               IF k > h.len /\ k <= h.len + Len(xs)
                               THEN xs[k - h.len] ELSE @[k]]],
         slice |-> [h EXCEPT !.len = h.len + Len(xs)],
         inplace |-> TRUE ]
  ELSE LET newcap == GrowCap(h.cap, h.len + Len(xs))
           elems == ReadSlice(arrs, h) \o xs
       IN [ arrays |-> Append(arrs, elems \o [k \in 1..(newcap - Len(elems)) |-> ZeroCriterion]),
            slice |-> [arr |-> Len(arrs) + 1, len |-> Len(elems), cap |-> newcap],
            inplace |-> FALSE ]

(***************************************************************************)
(* mergeCriteria                                                           *)
(***************************************************************************)

\* The map fieldQueryLeftOperands / labelQueryLeftOperands at a key: how many
\* criteria of the type in the sequence have this left operand.
LeftOperandCount(criteria, type, leftOp) ==
  Cardinality({k \in 1..Len(criteria) :
                 criteria[k].Type = type /\ criteria[k].LeftOp = leftOp})

\* CheckNewCriterion with one count for both query types, so that a field key
\* collides with an equal label key.
CheckNewCriterionKindsCollide(combined, newC) ==
  LET both == LeftOperandCount(combined, LabelQuery, newC.LeftOp)
                + LeftOperandCount(combined, FieldQuery, newC.LeftOp)
  IN IF newC.Type = LabelQuery /\ both > 1
     THEN Unsupported("duplicate label query key", newC.LeftOp)
     ELSE IF newC.Type = FieldQuery /\ both > 1
     THEN Unsupported("duplicate field query key", newC.LeftOp)
     ELSE Validate(newC)

\* What the second loop of mergeCriteria decides for one incoming criterion.
CheckNewCriterion(combined, newC) ==
  IF newC.Type = LabelQuery /\ LeftOperandCount(combined, LabelQuery, newC.LeftOp) > 1
  THEN Unsupported("duplicate label query key", newC.LeftOp)
  ELSE IF newC.Type = FieldQuery /\ LeftOperandCount(combined, FieldQuery, newC.LeftOp) > 1
  THEN Unsupported("duplicate field query key", newC.LeftOp)
  ELSE Validate(newC)

\* What the second loop decides for each incoming criterion, in order.
MergeOutcomes(combined, c2) == [k \in 1..Len(c2) |-> CheckNewCriterion(combined, c2[k])]

\* The error the second loop returns: that of the first incoming criterion
\* that is refused, nil when none is.
FirstError(outcomes) ==
  IF \A k \in 1..Len(outcomes) : outcomes[k].kind = "nil" THEN NoError
  ELSE outcomes[CHOOSE k \in 1..Len(outcomes) :
                  /\ outcomes[k].kind # "nil"
                  /\ \A m \in 1..(k - 1) : outcomes[m].kind = "nil"]

\* The last statement of mergeCriteria, result = append(result, c2...).
MergeAppended(appended) ==
  [arrays |-> appended.arrays, result |-> appended.slice, err |-> NoError]

\* mergeCriteria after its loops, on the heap they left.
MergeChecked(heap, c1, c2, err) ==
  IF err.kind # "nil" THEN [arrays |-> heap, result |-> NilSlice, err |-> err]
  ELSE MergeAppended(GoAppend(heap, c1, c2))

\* MergeCounted counting the left operands of c1 alone, not of c1 and c2.
MergeCountedExistingOnly(arrs, c1, c2, counted) ==
  MergeChecked(IF counted.inplace THEN counted.arrays ELSE arrs, c1, c2,
               FirstError(MergeOutcomes(ReadSlice(arrs, c1), c2)))

\* mergeCriteria after the loop header's append(c1, c2...), whose elements
\* the first loop counts by left operand. The append has written into c1's
\* array when its capacity allows; a newly allocated array is dropped after
\* the loop.
MergeCounted(arrs, c1, c2, counted) ==
  MergeChecked(IF counted.inplace THEN counted.arrays ELSE arrs, c1, c2,
               FirstError(MergeOutcomes(ReadSlice(counted.arrays, counted.slice), c2)))

\* mergeCriteria(c1, c2) on the heap arrs: c1 is a slice header, c2 the
\* incoming criteria. The first incoming criterion that is a duplicate or
\* fails Validate ends the call with its error; otherwise result is
\* append(c1, c2...).
mergeCriteria(arrs, c1, c2) == MergeCounted(arrs, c1, c2, GoAppend(arrs, c1, c2))

(***************************************************************************)
(* The parser: findRightOp and process                                     *)
(***************************************************************************)

BracketError == Unsupported("requires right operand to be surrounded in []", <<>>)

\* The loop variables of findRightOp after an iteration that ends with
\* offset++: the range loop has moved to the next rune.
NextRune(remaining, s) ==
  [s EXCEPT !.offset = s.offset + 1, !.pos = s.pos + RuneWidth(remaining, s.pos)]

\* A run-time fault in the loop.
Fault(s, msg) == [s EXCEPT !.st = "panic", !.msg = msg]

\* FindRightOpStep taking every unescaped separator for an element boundary
\* that does not end the segment.
FindRightOpStepSingleSplits(remaining, s) ==
  IF At(remaining, s.pos) # Separator
  THEN [NextRune(remaining, s) EXCEPT !.buf = s.buf \o RuneBytes(remaining, s.pos)]
  ELSE IF s.offset = 0
  THEN Fault(s, "index out of range")
  ELSE IF At(remaining, s.offset - 1) # Backslash
  THEN [NextRune(remaining, s) EXCEPT !.rightOp = Append(s.rightOp, s.buf), !.buf = <<>>]
  ELSE IF s.offset - 1 > Len(s.buf)
  THEN Fault(s, "slice bounds out of range")
  ELSE [NextRune(remaining, s) EXCEPT !.buf = Append(Slice(s.buf, 0, s.offset - 1), Separator)]

\* remaining[offset+1] is the separator, tested after offset+1 < len(remaining).
NextIsSeparator(remaining, s) ==
  s.offset + 1 < Len(remaining) /\ At(remaining, s.offset + 1) = Separator

\* One iteration of findRightOp's loop over the runes of remaining. s is
\* [rightOp, buf, offset, pos, st, msg]: the elements found, the
\* rightOpBuffer, the offset (the number of runes read), the byte offset pos
\* of the rune the range loop yields, st = "scan", "break" (the loop was
\* left) or "panic", and the message of the fault. The rune is compared with
\* the separator; its neighbours are the bytes remaining[offset+1] and
\* remaining[offset-1], and the buffer is cut at the byte offset-1.
FindRightOpStep(remaining, s) ==
  IF At(remaining, s.pos) # Separator
  THEN [NextRune(remaining, s) EXCEPT !.buf = s.buf \o RuneBytes(remaining, s.pos)]
  ELSE IF s.offset = 0
  THEN Fault(s, "index out of range")
  ELSE IF NextIsSeparator(remaining, s) /\ At(remaining, s.offset - 1) # Backslash
  THEN [NextRune(remaining, s) EXCEPT !.rightOp = Append(s.rightOp, s.buf), !.buf = <<>>]
  ELSE IF At(remaining, s.offset - 1) = Separator
  THEN NextRune(remaining, s)
  ELSE IF At(remaining, s.offset - 1) # Backslash
  THEN [s EXCEPT !.rightOp = Append(s.rightOp, s.buf), !.buf = <<>>, !.st = "break"]
  ELSE IF s.offset - 1 > Len(s.buf)
  THEN Fault(s, "slice bounds out of range")
  ELSE [NextRune(remaining, s) EXCEPT !.buf = Append(Slice(s.buf, 0, s.offset - 1), Separator)]

RECURSIVE FindRightOpLoop(_, _)
FindRightOpLoop(remaining, s) ==
  IF s.st # "scan" \/ s.pos >= Len(remaining) THEN s
  ELSE FindRightOpLoop(remaining, FindRightOpStep(remaining, s))

\* The part of findRightOp after the loop: the pending buffer becomes the
\* last element; for a multivariate operator the brackets are checked and
\* stripped; no element at all becomes one empty element.
FindRightOpFinish(s, operator) ==
  LET rightOp == IF Len(s.buf) > 0 THEN Append(s.rightOp, s.buf) ELSE s.rightOp
      firstElement == rightOp[1]
      opened == [rightOp EXCEPT ![1] = Tail(firstElement)]
      lastElement == opened[Len(opened)]
      closed == [opened EXCEPT ![Len(opened)] = Slice(lastElement, 0, Len(lastElement) - 1)]
  IN IF s.st = "panic"
     THEN [rightOp |-> <<>>, offset |-> 0 - 1, err |-> Panic(s.msg)]
     ELSE IF Len(rightOp) > 0 /\ IsMultiVariate(operator)
     THEN IF ~(firstElement # <<>> /\ firstElement[1] = OpenBracket)
          THEN [rightOp |-> <<>>, offset |-> 0 - 1, err |-> BracketError]
          ELSE IF lastElement = <<>>
          THEN [rightOp |-> <<>>, offset |-> 0 - 1, err |-> Panic("index out of range")]
          ELSE IF lastElement[Len(lastElement)] = CloseBracket
          THEN [rightOp |-> closed, offset |-> s.offset, err |-> NoError]
          ELSE [rightOp |-> <<>>, offset |-> 0 - 1, err |-> BracketError]
     ELSE IF Len(rightOp) = 0
     THEN [rightOp |-> << <<>> >>, offset |-> s.offset, err |-> NoError]
     ELSE [rightOp |-> rightOp, offset |-> s.offset, err |-> NoError]

\* findRightOp(remaining, leftOp, operator, criteriaType): [rightOp, offset,
\* err]; leftOp and criteriaType only appear in the error message. A fault in
\* the loop ends the call.
findRightOp(remaining, operator) ==
  FindRightOpFinish(
    FindRightOpLoop(remaining, [rightOp |-> <<>>, buf |-> <<>>, offset |-> 0, pos |-> 0,
                                st |-> "scan", msg |-> ""]),
    operator)

\* The state of a call of process: its arguments, the loop variables i and
\* j, the pending leftOp and operator, the criteria c found so far, the
\* position pc ("start", "loop", "done") and, when done, the error returned.
ProcessBegin(input, criteriaType) ==
  [ input |-> input, criteriaType |-> criteriaType, i |-> 0, j |-> 0,
    leftOp |-> <<>>, operator |-> "", c |-> <<>>, pc |-> "start", err |-> NoError ]

\* ProcessEnter without the early return for the empty input.
ProcessEnterAlwaysLoops(p) == [p EXCEPT !.pc = "loop"]

\* The early return for the empty input.
ProcessEnter(p) ==
  IF p.input = <<>> THEN [p EXCEPT !.pc = "done"] ELSE [p EXCEPT !.pc = "loop"]

ProcessFail(p, err) == [p EXCEPT !.pc = "done", !.c = <<>>, !.err = err]

\* The end of the loop body below: the validated criterion is appended and i
\* moved to the separator that ended the segment (then incremented by the
\* loop).
ProcessValidated(p, criterion, err, end) ==
  IF err.kind # "nil" THEN ProcessFail(p, err)
  ELSE [p EXCEPT !.c = Append(p.c, criterion), !.i = end + 1, !.j = end + 1,
                 !.leftOp = <<>>, !.operator = ""]

ProcessCriterion(p, criterion, end) ==
  ProcessValidated(p, criterion, Validate(criterion), end)

ProcessFound(p, found) ==
  IF found.err.kind # "nil" THEN ProcessFail(p, found.err)
  ELSE ProcessCriterion(p, newCriterion(p.leftOp, p.operator, found.rightOp, p.criteriaType),
                        p.i + found.offset + Len(OpText(p.operator)) + Len(<<Separator>>))

\* The loop body when leftOp and operator are both known: the right operand
\* is read from the text after the operator, the criterion made and validated.
ProcessRightOp(p) ==
  IF p.i + Len(OpText(p.operator)) + 1 > Len(p.input)
  THEN ProcessFail(p, Panic("slice bounds out of range"))
  ELSE ProcessFound(p, findRightOp(Slice(p.input, p.i + Len(OpText(p.operator)) + 1,
                                         Len(p.input)),
                                   p.operator))

\* The loop body otherwise: when the rest of the input starts with an
\* operator between two operand separators, the text since j becomes leftOp.
ProcessScan(p) ==
  LET remaining == Slice(p.input, p.i, Len(p.input))
      token(op) == <<OperandSeparator>> \o OpText(op) \o <<OperandSeparator>>
      matching == {k \in 1..Len(operators) : HasPrefix(remaining, token(operators[k]))}
      first == CHOOSE k \in matching : \A m \in matching : k <= m
  IN IF matching = {} THEN [p EXCEPT !.i = p.i + 1]
     ELSE [p EXCEPT !.leftOp = Slice(p.input, p.j, p.i), !.operator = operators[first],
                    !.i = p.i + 1]

\* After the loop: no criterion at all is an error.
ProcessEnd(p) ==
  IF Len(p.c) = 0 THEN ProcessFail(p, Unsupported("is not a valid query", p.input))
  ELSE [p EXCEPT !.pc = "done"]

ProcessStep(p) ==
  IF p.pc = "start" THEN ProcessEnter(p)
  ELSE IF p.i >= Len(p.input) THEN ProcessEnd(p)
  ELSE IF p.leftOp # <<>> /\ p.operator # "" THEN ProcessRightOp(p)
  ELSE ProcessScan(p)

RECURSIVE ProcessRun(_)
ProcessRun(p) == IF p.pc = "done" THEN p ELSE ProcessRun(ProcessStep(p))

\* process(input, criteriaType): the criteria c and the error err.
process(input, criteriaType) == ProcessRun(ProcessBegin(input, criteriaType))

(***************************************************************************)
(* BuildCriteriaFromRequest and sort.Sort(ByLeftOp(criteria))              *)
(***************************************************************************)

\* Less with the comparison turned round.
LessDescending(x, y) == StrLess(y.LeftOp, x.LeftOp)

\* ByLeftOp.Less on two elements.
Less(x, y) == StrLess(x.LeftOp, y.LeftOp)

\* The inner loop of sort's insertionSort: the element at position j moves
\* towards the front while it is less than its predecessor (positions from 1).
RECURSIVE InsertBack(_, _)
InsertBack(data, j) ==
  IF j > 1 /\ Less(data[j], data[j - 1])
  THEN InsertBack([data EXCEPT ![j] = data[j - 1], ![j - 1] = data[j]], j - 1)
  ELSE data

RECURSIVE InsertionSortFrom(_, _)
InsertionSortFrom(data, i) ==
  IF i > Len(data) THEN data ELSE InsertionSortFrom(InsertBack(data, i), i + 1)

\* The pass over a slice of at most twelve elements that sort's quickSort
\* makes before insertionSort: the element at position i changes places with
\* the one six positions before it when it is less (positions from 1).
RECURSIVE ShellPassFrom(_, _)
ShellPassFrom(data, i) ==
  IF i > Len(data) THEN data
  ELSE IF Less(data[i], data[i - 6])
  THEN ShellPassFrom([data EXCEPT ![i] = data[i - 6], ![i - 6] = data[i]], i + 1)
  ELSE ShellPassFrom(data, i + 1)

\* The orders of the elements at the positions left in which no element is
\* followed by a lesser one.
RECURSIVE OrdersOf(_, _)
OrdersOf(data, left) ==
  IF left = {} THEN {<<>>}
  ELSE UNION {{<<data[i]>> \o rest : rest \in OrdersOf(data, left \ {i})} :
                i \in {i \in left : \A j \in left : ~Less(data[j], data[i])}}

\* sort.Sort on a ByLeftOp: the orders the call can leave, which depend on
\* the toolchain the program is built with, sort.Sort not being stable. On
\* at most twelve elements it is insertionSort alone (pdqsort, from Go 1.19
\* on) or the pass with gap six followed by insertionSort (quickSort, up to
\* Go 1.18); the two differ from seven elements on. On more elements the
\* library only promises an order by Less: equal left operands may come out
\* in any order.
Sort(data) ==
  IF Len(data) <= 12
  THEN {InsertionSortFrom(data, 2), InsertionSortFrom(ShellPassFrom(data, 7), 2)}
  ELSE OrdersOf(data, 1..Len(data))

\* The loop body of BuildCriteriaFromRequest after process: an error of
\* process is returned, otherwise the criteria are merged.
BuildMerged(merged) ==
  [arrays |-> merged.arrays, criteria |-> merged.result, err |-> merged.err]

BuildProcessed(acc, querySegments) ==
  IF querySegments.err.kind # "nil"
  THEN [arrays |-> acc.arrays, criteria |-> NilSlice, err |-> querySegments.err]
  ELSE BuildMerged(mergeCriteria(acc.arrays, acc.criteria, querySegments.c))

\* One iteration of the loop over supportedQueryTypes; an earlier error has
\* already been returned.
BuildStep(acc, queryValues, queryType) ==
  IF acc.err.kind # "nil" THEN acc
  ELSE BuildProcessed(acc, process(queryValues, queryType))

\* After the loop: the sort, and the return; one result for each order the
\* sort can leave.
BuildSorted(afterLabel) ==
  IF afterLabel.err.kind # "nil"
  THEN {[criteria |-> <<>>, err |-> afterLabel.err]}
  ELSE {[criteria |-> sorted, err |-> NoError] :
          sorted \in Sort(ReadSlice(afterLabel.arrays, afterLabel.criteria))}

\* BuildCriteriaFromRequest for the (decoded) values of the two query
\* parameters: for each supported query type in turn, process then
\* mergeCriteria into criteria (nil at first), then the sort: the set of the
\* results the call can return. The slices are local to the call, on a heap
\* of their own.
BuildCriteriaFromRequest(request) ==
  BuildSorted(
    BuildStep(BuildStep([arrays |-> <<>>, criteria |-> NilSlice, err |-> NoError],
                        request.fieldQuery, supportedQueryTypes[1]),
              request.labelQuery, supportedQueryTypes[2]))

(***************************************************************************)
(* The criteria carrier: contexts holding a criteria slice                 *)
(***************************************************************************)

\* A context: whether it carries a value for criteriaCtxKey, and the slice.
Background == [set |-> FALSE, criteria |-> NilSlice]

\* CriteriaForContext: the slice stored in the context, or a new empty one.
CriteriaForContext(ctx) == IF ctx.set THEN ctx.criteria ELSE NilSlice

\* The criteria read now from the h-th context returned so far.
Criteria(h) == ReadSlice(arrays, CriteriaForContext(ctxs[h]))

\* The state of the parser while it is not in use, and the record of the
\* last carrier call before any call.
IdleProc == [ProcessBegin(<<>>, FieldQuery) EXCEPT !.pc = "idle"]

\* The state of a call of Validate while none is made.
IdleVal == [c |-> ZeroCriterion, pc |-> "idle", err |-> NoError]

\* The storage layer before any call: no operation is under way and the
\* database has executed no statement.
IdleDb ==
  [pc |-> "idle", op |-> "", criteria |-> <<>>, filter |-> <<>>,
   bindType |-> "question", executedQuery |-> <<>>, queryArgs |-> <<>>, calls |-> 0, err |-> NoError]

\* The filter of identity-derived label criteria while it handles no request.
IdleWeb ==
  [pc |-> "idle", user |-> "none", claims |-> <<>>, keys |-> <<>>, ctx |-> 0,
   before |-> <<>>, handled |-> 0, next |-> 0, err |-> NoError]

NoCall ==
  [ op |-> "none", ctx |-> 0, existing |-> <<>>, incoming |-> <<>>, err |-> NoError,
    returned |-> 0, n |-> 0 ]

\* Bounds of the carrier runs: the number of calls in a run of AddCriteria
\* calls only, the number of calls in a run of both operations, and the
\* unused capacity of a slice handed to ContextWithCriteria.
MaxAddCalls == 4
MaxCalls == 2
MaxSpare == 1

\* The criteria the carrier runs draw from: two field keys, a label key equal
\* to a field key, a result limit, and a field criterion Validate rejects.
KeyX == <<"x">>
KeyY == <<"y">>
FieldX == ByField(EqualsOperator, KeyX, << <<"1">> >>)
FieldY == ByField(EqualsOperator, KeyY, << <<"1">> >>)
LabelX == ByLabel(EqualsOperator, KeyX, << <<"1">> >>)
LimitOne == LimitResultBy(<<"1">>)
NotNumeric == ByField(GreaterThanOperator, KeyY, << <<"a">> >>)

\* The lists AddCriteria is called with.
IncomingLists ==
  { <<FieldX>>, <<FieldY>>, <<LabelX>>, <<LimitOne>>, <<NotNumeric>>,
    <<FieldX, FieldY>>, <<FieldY, FieldY>>, <<LabelX, FieldX>>, <<NotNumeric, FieldX>> }

\* A list that fills an array of eight elements, so that the next append
\* allocates an array for sixteen.
EightCriteria ==
  <<FieldX, FieldY, LimitOne, LimitOne, LimitOne, LimitOne, LimitOne, LimitOne>>

\* The lists ContextWithCriteria is called with.
InstalledLists ==
  { <<FieldX>>, <<LabelX>>, <<FieldX, FieldX>>, <<FieldX, FieldY, LimitOne>>, EightCriteria }

InitCarrier ==
  /\ mallocHeader \in BOOLEAN
  /\ arrays = <<>>
  /\ ctxs = <<Background>>
  /\ last = NoCall
  /\ proc = IdleProc
  /\ reqs = <<>>
  /\ built = <<>>
  /\ val = IdleVal
  /\ db = IdleDb
  /\ web = IdleWeb

\* AddCriteria(ctx, newCriteria...) on the h-th context: the merge may write
\* into the array the context's slice points to; a new context is returned
\* only when the merge succeeds. last records what the call was given and
\* what it answered.
AddCriteria(h, newCriteria) ==
  \E merged \in {mergeCriteria(arrays, CriteriaForContext(ctxs[h]), newCriteria)} :
    /\ arrays' = merged.arrays
    /\ ctxs' = IF merged.err.kind = "nil"
               THEN Append(ctxs, [set |-> TRUE, criteria |-> merged.result])
               ELSE ctxs
    /\ last' = [ op |-> "AddCriteria", ctx |-> h,
                 existing |-> ReadSlice(arrays, CriteriaForContext(ctxs[h])),
                 incoming |-> newCriteria, err |-> merged.err,
                 returned |-> IF merged.err.kind = "nil" THEN Len(ctxs) + 1 ELSE 0,
                 n |-> last.n + 1 ]
    /\ UNCHANGED <<proc, reqs, built, val, db, web, mallocHeader>>

\* ContextWithCriteria(ctx, criteria) on the h-th context, the caller's slice
\* holding the given criteria and spare unused capacity.
ContextWithCriteria(h, criteria, spare) ==
  LET made == NewSlice(arrays, criteria, spare)
  IN /\ arrays' = made.arrays
     /\ ctxs' = Append(ctxs, [set |-> TRUE, criteria |-> made.slice])
     /\ last' = [ op |-> "ContextWithCriteria", ctx |-> h, existing |-> <<>>,
                  incoming |-> criteria, err |-> NoError,
                  returned |-> Len(ctxs) + 1, n |-> last.n + 1 ]
     /\ UNCHANGED <<proc, reqs, built, val, db, web, mallocHeader>>

NextAdd ==
  \E h \in 1..Len(ctxs), newCriteria \in IncomingLists :
    /\ last.n < MaxAddCalls
    /\ AddCriteria(h, newCriteria)

NextCarrier ==
  \/ \E h \in 1..Len(ctxs), newCriteria \in IncomingLists :
       /\ last.n < MaxCalls
       /\ AddCriteria(h, newCriteria)
  \/ \E h \in 1..Len(ctxs), criteria \in InstalledLists, spare \in 0..MaxSpare :
       /\ last.n < MaxCalls
       /\ ContextWithCriteria(h, criteria, spare)

\* Only AddCriteria calls, from the context without criteria.
SpecAdd == InitCarrier /\ [][NextAdd]_vars

\* AddCriteria and ContextWithCriteria calls.
SpecCarrier == InitCarrier /\ [][NextCarrier]_vars

(***************************************************************************)
(* Properties of the carrier and of mergeCriteria                          *)
(***************************************************************************)

IsQuery(c) == c.Type = FieldQuery \/ c.Type = LabelQuery

SameKey(c, d) == c.Type = d.Type /\ c.LeftOp = d.LeftOp

\* No two field criteria and no two label criteria of the list share a key.
NoDuplicateKeys(criteria) ==
  \A k, m \in 1..Len(criteria) :
    (k # m /\ IsQuery(criteria[k])) => ~SameKey(criteria[k], criteria[m])

\* The positions of the incoming field and label criteria whose key is also
\* the key of an existing criterion or of another incoming criterion.
RepeatedIncoming(existing, incoming) ==
  {k \in 1..Len(incoming) :
     /\ IsQuery(incoming[k])
     /\ \/ \E m \in 1..Len(existing) : SameKey(incoming[k], existing[m])
        \/ \E m \in 1..Len(incoming) : m # k /\ SameKey(incoming[k], incoming[m])}

IsDuplicateKeyError(err) ==
  /\ err.kind = "UnsupportedQueryError"
  /\ err.msg \in {"duplicate label query key", "duplicate field query key"}

\* The duplicate-key error mergeCriteria gives for the criterion c.
DuplicateKeyErrorFor(c) ==
  Unsupported(IF c.Type = LabelQuery THEN "duplicate label query key"
              ELSE "duplicate field query key", c.LeftOp)

AllValid(criteria) == \A k \in 1..Len(criteria) : Validate(criteria[k]).kind = "nil"

\* The last step was a call of AddCriteria.
AddCalled == last'.n = last.n + 1 /\ last'.op = "AddCriteria"

\* C1: the criteria read from a context returned earlier never change: every
\* step leaves the criteria of every existing context as they were.
C1_CopyOnWrite ==
  [][\A h \in 1..Len(ctxs) : Criteria(h)' = Criteria(h)]_vars

\* C2: a call of AddCriteria that returns an error changes nothing: no new
\* context, and the criteria of every existing context as before.
C2_FailedMergeChangesNothing ==
  [][(AddCalled /\ last'.err.kind # "nil")
       => /\ Len(ctxs') = Len(ctxs)
          /\ \A h \in 1..Len(ctxs) : Criteria(h)' = Criteria(h)]_vars

\* C3: started from the context without criteria, after AddCriteria calls
\* only, no context holds two field criteria or two label criteria with the
\* same left operand.
C3_NoDuplicateKeys == \A h \in 1..Len(ctxs) : NoDuplicateKeys(Criteria(h))

\* C4 as stated: whenever an incoming field or label criterion repeats a
\* key, AddCriteria's merge answers with the duplicate-key error; and when no
\* incoming criterion repeats a key of its own kind (all being valid) the
\* merge succeeds, a field key equal to a label key included.
C4_DuplicateRejectedAsStated ==
  last.op = "AddCriteria" =>
    /\ RepeatedIncoming(last.existing, last.incoming) # {} => IsDuplicateKeyError(last.err)
    /\ (RepeatedIncoming(last.existing, last.incoming) = {} /\ AllValid(last.incoming))
         => last.err.kind = "nil"

\* C4 as amended: a merge with a repeated incoming key never succeeds; its
\* answer is the duplicate-key error of the first repeated incoming criterion
\* when every incoming criterion before that one is valid (that one may be
\* invalid itself: the key is looked at before Validate), and otherwise the
\* outcome of Validate on the first invalid one; with no repeated key of the
\* same kind and all incoming criteria valid it succeeds.
C4_DuplicateRejected ==
  last.op = "AddCriteria" =>
    LET repeated == RepeatedIncoming(last.existing, last.incoming)
        firstRepeated == CHOOSE k \in repeated : \A m \in repeated : k <= m
        invalid == {k \in 1..Len(last.incoming) : Validate(last.incoming[k]).kind # "nil"}
        firstInvalid == CHOOSE k \in invalid : \A m \in invalid : k <= m
    IN /\ repeated # {} => last.err.kind # "nil"
       /\ (repeated # {} /\ \A k \in invalid : k >= firstRepeated)
            => last.err = DuplicateKeyErrorFor(last.incoming[firstRepeated])
       /\ (repeated # {} /\ \E k \in invalid : k < firstRepeated)
            => last.err = Validate(last.incoming[firstInvalid])
       /\ (repeated = {} /\ invalid = {}) => last.err.kind = "nil"

\* A merge was refused because an incoming field key equals an existing one.
C4_Witness ==
  /\ last.op = "AddCriteria"
  /\ \E k \in 1..Len(last.incoming), m \in 1..Len(last.existing) :
       /\ last.incoming[k].Type = FieldQuery
       /\ SameKey(last.incoming[k], last.existing[m])
  /\ IsDuplicateKeyError(last.err)

\* C5 as stated: with all incoming criteria valid, the merge fails with the
\* duplicate-key error exactly when some field or label key occurs more than
\* once in existing ++ incoming.
C5_DuplicateIffCombinedAsStated ==
  (last.op = "AddCriteria" /\ AllValid(last.incoming)) =>
    (IsDuplicateKeyError(last.err) <=> ~NoDuplicateKeys(last.existing \o last.incoming))

\* C5 as amended: with all incoming criteria valid, the merge fails with the
\* duplicate-key error exactly when the key of some incoming field or label
\* criterion occurs more than once in existing ++ incoming; a key repeated
\* among the existing criteria only is not reported.
C5_DuplicateIffIncomingRepeated ==
  (last.op = "AddCriteria" /\ AllValid(last.incoming)) =>
    (IsDuplicateKeyError(last.err)
       <=> RepeatedIncoming(last.existing, last.incoming) # {})

\* A merge of valid criteria onto a set installed with ContextWithCriteria
\* that already repeats a key succeeded.
C5_Witness ==
  /\ last.op = "AddCriteria"
  /\ AllValid(last.incoming)
  /\ ~NoDuplicateKeys(last.existing)
  /\ RepeatedIncoming(last.existing, last.incoming) = {}
  /\ last.err.kind = "nil"

(***************************************************************************)
(* Runs of the parser                                                      *)
(***************************************************************************)

RECURSIVE Concat(_)
Concat(parts) == IF parts = <<>> THEN <<>> ELSE parts[1] \o Concat(Tail(parts))

\* Bounds of the parser runs: the number of pieces an input is made of, and
\* the number of atoms of an operand made of plain and escaped characters.
MaxPieces == 4
MaxAtoms == 4

\* The pieces: a letter, the separator, the backslash, the brackets, the
\* operand separator, and two operators between operand separators.
Pieces ==
  { <<"a">>, <<Separator>>, <<Backslash>>, <<OpenBracket>>, <<CloseBracket>>,
    <<OperandSeparator>>, <<" ", "=", " ">>, <<" ", "i", "n", " ">> }

PieceInputs == UNION {{Concat(f) : f \in [1..n -> Pieces]} : n \in 0..MaxPieces}

\* Operands of plain characters and escaped separators, behind `k = `.
EscapeAtoms == { <<"x">>, <<Backslash, Separator>> }

EscapedOperands == UNION {{Concat(f) : f \in [1..n -> EscapeAtoms]} : n \in 1..MaxAtoms}

KeyEquals == <<"k", " ", "=", " ">>

EscapeInputs == {KeyEquals \o operand : operand \in EscapedOperands}

\* Inputs quoted by the specification.
NameFooBar == <<"n", "a", "m", "e", " ", "=", " ", "f", "o", "o", "\\", "|", "b", "a", "r">>
KeyXYZ == <<"k", " ", "=", " ", "x", "\\", "|", "y", "\\", "|", "z">>
StatusInSingle ==
  <<"s", "t", "a", "t", "u", "s", " ", "i", "n", " ", "[", "a", "|", "b", "|", "c", "]">>
StatusInDouble ==
  <<"s", "t", "a", "t", "u", "s", " ", "i", "n", " ", "[", "a", "|", "|", "b", "|", "|",
    "c", "]">>
StatusInBare == <<"s", "t", "a", "t", "u", "s", " ", "i", "n", " ", "a">>
ListEscaped == <<"k", " ", "i", "n", " ", "[", "a", "|", "|", "b", "\\", "|", "c", "]">>
ListThenSegment ==
  <<"k", " ", "i", "n", " ", "[", "a", "|", "|", "b", "]", "|", "n", " ", "=", " ", "v">>
EscapedThenSegment ==
  <<"n", "a", "m", "e", " ", "=", " ", "f", "o", "o", "\\", "|", "|", "b", " ", "=", " ",
    "1">>
TwoSegments == <<"a", " ", "=", " ", "1", "|", "b", " ", "=", " ", "2">>
TrailingText == <<"a", " ", "=", " ", "1", "|", "b">>

\* The character U+00E9: the two bytes C3 A9.
Accent == <<"C3", "A9">>

\* Bound of the list inputs: the number of elements of a bracketed list.
MaxElements == 3

\* Inputs `k in [e1||e2||...]` and `k notin [e1||e2||...]`, alone and
\* followed by a second segment `n = v`; the elements are letters and the
\* character U+00E9, whose encoding is two bytes long.
ListElementTexts == { <<"a">>, <<"b">>, <<"c">>, Accent }

ElementLists == UNION {[1..n -> ListElementTexts] : n \in 1..MaxElements}

Doubled(elements) ==
  Concat([k \in 1..(2 * Len(elements) - 1) |->
            IF k % 2 = 1 THEN elements[(k + 1) \div 2] ELSE <<Separator, Separator>>])

ListSegment(operator, elements) ==
  <<"k", OperandSeparator>> \o OpText(operator) \o <<OperandSeparator, OpenBracket>>
    \o Doubled(elements) \o <<CloseBracket>>

NextSegment == <<Separator, "n", " ", "=", " ", "v">>

ListInputs ==
  UNION {{ListSegment(operator, elements), ListSegment(operator, elements) \o NextSegment} :
           operator \in {InOperator, NotInOperator}, elements \in ElementLists}

QuotedInputs ==
  { NameFooBar, KeyXYZ, StatusInSingle, StatusInDouble, StatusInBare, ListEscaped,
    ListThenSegment, EscapedThenSegment, TwoSegments, TrailingText }

\* Inputs with bytes outside ASCII: the lone byte FF is no well-formed
\* encoding.
AccentKey == <<"C3", "A9", " ", "=", " ", "1">>
AccentThenSegment == <<"a", " ", "=", " ", "C3", "A9", "|", "b", " ", "=", " ", "1">>
AccentThenElement == <<"a", " ", "=", " ", "C3", "A9", "|", "|", "b">>
AccentList == <<"k", " ", "i", "n", " ", "[", "C3", "A9", "|", "|", "b", "]">>
AccentEscaped == <<"a", " ", "=", " ", "C3", "A9", "\\", "|", "b">>
AccentThenEscaped == <<"a", " ", "=", " ", "C3", "A9", "x", "\\", "|", "b">>
LoneByte == <<"a", " ", "=", " ", "FF", "b", "|", "c", " ", "=", " ", "2">>
SixAccents ==
  <<"a", " ", "=", " ", "C3", "A9", "C3", "A9", "C3", "A9", "C3", "A9", "C3", "A9", "C3",
    "A9", " ", "=", " ", "b">>

ByteInputs ==
  { AccentKey, AccentThenSegment, AccentThenElement, AccentList, AccentEscaped,
    AccentThenEscaped, LoneByte, SixAccents }

ParserInputs ==
  PieceInputs \cup EscapeInputs \cup QuotedInputs \cup ListInputs \cup ByteInputs

InitParse ==
  /\ mallocHeader \in BOOLEAN
  /\ proc \in {ProcessBegin(input, criteriaType) :
                 input \in ParserInputs, criteriaType \in {FieldQuery, LabelQuery}}
  /\ arrays = <<>>
  /\ ctxs = <<>>
  /\ last = NoCall
  /\ reqs = <<>>
  /\ built = <<>>
  /\ val = IdleVal
  /\ db = IdleDb
  /\ web = IdleWeb

\* process is entered: the empty input returns at once.
ProcessStart ==
  /\ proc.pc = "start"
  /\ proc' = ProcessEnter(proc)
  /\ UNCHANGED <<arrays, ctxs, last, reqs, built, val, db, web, mallocHeader>>

\* A loop iteration that reads the right operand of the pending pair.
ProcessLoopRightOp ==
  /\ proc.pc = "loop"
  /\ proc.i < Len(proc.input)
  /\ proc.leftOp # <<>> /\ proc.operator # ""
  /\ proc' = ProcessRightOp(proc)
  /\ UNCHANGED <<arrays, ctxs, last, reqs, built, val, db, web, mallocHeader>>

\* A loop iteration that looks for an operator at position i.
ProcessLoopScan ==
  /\ proc.pc = "loop"
  /\ proc.i < Len(proc.input)
  /\ ~(proc.leftOp # <<>> /\ proc.operator # "")
  /\ proc' = ProcessScan(proc)
  /\ UNCHANGED <<arrays, ctxs, last, reqs, built, val, db, web, mallocHeader>>

\* The loop has ended: process returns.
ProcessReturn ==
  /\ proc.pc = "loop"
  /\ proc.i >= Len(proc.input)
  /\ proc' = ProcessEnd(proc)
  /\ UNCHANGED <<arrays, ctxs, last, reqs, built, val, db, web, mallocHeader>>

NextParse == ProcessStart \/ ProcessLoopRightOp \/ ProcessLoopScan \/ ProcessReturn

SpecParse == InitParse /\ [][NextParse]_vars

(***************************************************************************)
(* Properties of the parser                                                *)
(***************************************************************************)

Returned == proc.pc = "done"

\* The text of an operand with every backslash-separator pair replaced by
\* the separator.
RECURSIVE Unescape(_)
Unescape(operand) ==
  IF operand = <<>> THEN <<>>
  ELSE IF HasPrefix(operand, <<Backslash, Separator>>)
  THEN <<Separator>> \o Unescape(SubSeq(operand, 3, Len(operand)))
  ELSE <<operand[1]>> \o Unescape(Tail(operand))

\* The operand is made of letters and of escaped separators only.
RECURSIVE IsEscapedOperand(_)
IsEscapedOperand(operand) ==
  IF operand = <<>> THEN TRUE
  ELSE IF HasPrefix(operand, <<Backslash, Separator>>)
  THEN IsEscapedOperand(SubSeq(operand, 3, Len(operand)))
  ELSE /\ operand[1] \notin {Separator, Backslash, OperandSeparator}
       /\ IsEscapedOperand(Tail(operand))

\* The left operands the inputs of the properties below start with.
Keys == { <<"a">>, <<"k">>, <<"n", "a", "m", "e">>, <<"s", "t", "a", "t", "u", "s">> }

EqualsToken == <<" ", "=", " ">>
InToken == <<" ", "i", "n", " ">>

Rest(input, prefix) == SubSeq(input, Len(prefix) + 1, Len(input))

\* C6: process returns a criteria list or an error value and never faults.
C6_NeverFaults == proc.err.kind # "panic"

\* C7: for an input `key = operand` whose operand is made of letters and
\* escaped separators, process returns exactly one criterion, whose only
\* right operand is the operand with each escaping backslash removed.
C7_EscapedSeparatorsKept ==
  \A key \in Keys :
    (/\ Returned
     /\ HasPrefix(proc.input, key \o EqualsToken)
     /\ Rest(proc.input, key \o EqualsToken) # <<>>
     /\ IsEscapedOperand(Rest(proc.input, key \o EqualsToken)))
      => /\ proc.err.kind = "nil"
         /\ proc.c = << newCriterion(key, EqualsOperator,
                                     <<Unescape(Rest(proc.input, key \o EqualsToken))>>,
                                     proc.criteriaType) >>

StatusKey == <<"s", "t", "a", "t", "u", "s">>

StatusInABC ==
  newCriterion(StatusKey, InOperator, << <<"a">>, <<"b">>, <<"c">> >>, proc.criteriaType)

\* C8 as stated: parsing `status in [a|b|c]` succeeds with the single
\* criterion status in (a, b, c).
C8_SingleSeparatorListAsStated ==
  (Returned /\ proc.input = StatusInSingle)
    => proc.err.kind = "nil" /\ proc.c = <<StatusInABC>>

\* C8 as amended: parsing `status in [a|b|c]` fails with the bracket error,
\* the single separator after `[a` ending the segment; the list elements are
\* delimited by a doubled separator, and parsing `status in [a||b||c]`
\* succeeds with the single criterion status in (a, b, c).
C8_DoubledSeparatorList ==
  /\ (Returned /\ proc.input = StatusInSingle)
       => proc.err = BracketError /\ proc.c = <<>>
  /\ (Returned /\ proc.input = StatusInDouble)
       => proc.err.kind = "nil" /\ proc.c = <<StatusInABC>>

\* `status in [a||b||c]` has been parsed.
C8_Witness ==
  /\ Returned
  /\ proc.input = StatusInDouble
  /\ proc.c = <<StatusInABC>>

NoSeparatorNoEscape(operand) ==
  \A k \in 1..Len(operand) : operand[k] \notin {Separator, Backslash}

Bracketed(operand) ==
  /\ operand # <<>>
  /\ operand[1] = OpenBracket
  /\ operand[Len(operand)] = CloseBracket

\* C9: for an input `key in operand` (the operand without separator, so that
\* it is the operand text of the only segment), process fails with the
\* bracket error whenever the operand does not start with `[` or does not
\* end with `]`, the empty operand included.
C9_BracketsEnforced ==
  \A key \in Keys :
    (/\ Returned
     /\ HasPrefix(proc.input, key \o InToken)
     /\ NoSeparatorNoEscape(Rest(proc.input, key \o InToken))
     /\ ~Bracketed(Rest(proc.input, key \o InToken)))
      => proc.err = BracketError /\ proc.c = <<>>

(***************************************************************************)
(* Runs of BuildCriteriaFromRequest                                        *)
(***************************************************************************)

\* Bounds of the request runs: the number of segments of the field query
\* and of the label query.
MaxFieldSegs == 2
MaxLabelSegs == 1

FieldSegments == { <<"a", " ", "=", " ", "1">>,
                   <<"b", " ", "=", " ", "2">>,
                   <<"a", "b", " ", "=", " ", "3">> }

LabelSegments == { <<"a", " ", "=", " ", "7">>,
                   <<"c", " ", "=", " ", "8">> }

\* The segments joined by the separator.
RECURSIVE Join(_)
Join(segments) ==
  IF segments = <<>> THEN <<>>
  ELSE IF Len(segments) = 1 THEN segments[1]
  ELSE segments[1] \o <<Separator>> \o Join(Tail(segments))

FieldQueries == UNION {{Join(f) : f \in [1..n -> FieldSegments]} : n \in 0..MaxFieldSegs}

\* Label queries of five segments, which make seven criteria with a field
\* query of two: the last key is less than the field key b; in the first
\* query it is the field key a, in the second it is no other key.
LongLabelQueries ==
  { Join(<< <<"c", " ", "=", " ", "8">>, <<"d", " ", "=", " ", "1">>,
             <<"e", " ", "=", " ", "1">>, <<"f", " ", "=", " ", "1">>,
             <<"a", " ", "=", " ", "7">> >>),
    Join(<< <<"c", " ", "=", " ", "8">>, <<"d", " ", "=", " ", "1">>,
             <<"e", " ", "=", " ", "1">>, <<"f", " ", "=", " ", "1">>,
             <<"a", "a", " ", "=", " ", "7">> >>) }

LabelQueries ==
  LongLabelQueries
    \cup UNION {{Join(f) : f \in [1..n -> LabelSegments]} : n \in 0..MaxLabelSegs}

Pending == [pc |-> "pending", criteria |-> <<>>, err |-> NoError]

\* Two requests with the same label query.
InitBuild ==
  /\ mallocHeader \in BOOLEAN
  /\ \E f1 \in FieldQueries, f2 \in FieldQueries, l \in LabelQueries :
       reqs = << [fieldQuery |-> f1, labelQuery |-> l],
                 [fieldQuery |-> f2, labelQuery |-> l] >>
  /\ built = <<Pending, Pending>>
  /\ arrays = <<>>
  /\ ctxs = <<>>
  /\ last = NoCall
  /\ proc = IdleProc
  /\ val = IdleVal
  /\ db = IdleDb
  /\ web = IdleWeb

\* BuildCriteriaFromRequest is called for the k-th request.
BuildRequest(k) ==
  /\ built[k].pc = "pending"
  /\ \E r \in BuildCriteriaFromRequest(reqs[k]) :
       built' = [built EXCEPT ![k] = [pc |-> "done", criteria |-> r.criteria, err |-> r.err]]
  /\ UNCHANGED <<arrays, ctxs, last, proc, reqs, val, db, web, mallocHeader>>

NextBuild == \E k \in 1..Len(reqs) : BuildRequest(k)

SpecBuild == InitBuild /\ [][NextBuild]_vars

BuiltOk(k) == built[k].pc = "done" /\ built[k].err.kind = "nil"

Elements(seq) == {seq[k] : k \in 1..Len(seq)}

\* The two field queries parse into the same criteria, all with different
\* left operands, possibly in a different order.
SameSegments ==
  LET c1 == process(reqs[1].fieldQuery, FieldQuery).c
      c2 == process(reqs[2].fieldQuery, FieldQuery).c
  IN /\ Len(c1) = Len(c2)
     /\ Elements(c1) = Elements(c2)
     /\ \A k, m \in 1..Len(c1) : k # m => c1[k].LeftOp # c1[m].LeftOp

\* The left operands of the list are pairwise distinct.
DistinctLeftOps(criteria) ==
  \A k, m \in 1..Len(criteria) : k # m => criteria[k].LeftOp # criteria[m].LeftOp

\* C10: the criteria BuildCriteriaFromRequest returns are in non-decreasing
\* order of left operand, and two requests whose field queries are made of
\* the same segments, in whatever order, get identical criteria lists when
\* the left operands of their criteria are pairwise distinct.
C10_OrderIndependent ==
  /\ \A r \in 1..Len(built) :
       BuiltOk(r) =>
         \A k \in 1..(Len(built[r].criteria) - 1) :
           ~StrLess(built[r].criteria[k + 1].LeftOp, built[r].criteria[k].LeftOp)
  /\ (BuiltOk(1) /\ BuiltOk(2) /\ SameSegments /\ DistinctLeftOps(built[1].criteria))
       => built[1].criteria = built[2].criteria

\* Both requests are built, from field queries with the same two segments in
\* different orders and a label query of five segments with other keys: the
\* seven criteria are in the same order.
C10_Witness ==
  /\ BuiltOk(1) /\ BuiltOk(2)
  /\ reqs[1].fieldQuery # reqs[2].fieldQuery
  /\ SameSegments
  /\ Len(built[1].criteria) = 7
  /\ DistinctLeftOps(built[1].criteria)
  /\ built[1].criteria = built[2].criteria

(***************************************************************************)
(* Absent inputs of BuildCriteriaFromRequest                               *)
(***************************************************************************)

\* The one order of a list whose left operands all differ: each criterion
\* stands behind as many others as have a smaller left operand.
Sorted(criteria) ==
  [k \in 1..Len(criteria) |->
     CHOOSE c \in Elements(criteria) :
       Cardinality({d \in Elements(criteria) : Less(d, c)}) = k - 1]

\* What a request with one input alone comes to, given what process made of
\* that input: the error of process; else the duplicate-key error of the
\* first criterion whose key is repeated; else the sorted criteria.
AloneResult(parsed) ==
  IF parsed.err.kind # "nil" THEN [criteria |-> <<>>, err |-> parsed.err]
  ELSE IF RepeatedIncoming(<<>>, parsed.c) # {}
  THEN [criteria |-> <<>>,
        err |-> DuplicateKeyErrorFor(
                  parsed.c[CHOOSE k \in RepeatedIncoming(<<>>, parsed.c) :
                             \A m \in RepeatedIncoming(<<>>, parsed.c) : k <= m])]
  ELSE [criteria |-> Sorted(parsed.c), err |-> NoError]

BuiltResult(k) == [criteria |-> built[k].criteria, err |-> built[k].err]

\* C11: an absent (empty) input parses to no criteria and no error, for
\* either query type, and a request with one input absent gets exactly what
\* the other input alone comes to: its sorted criteria when it parses, with
\* no key repeated, and never an error on account of the absent input.
C11_AbsentSafe ==
  /\ \A criteriaType \in {FieldQuery, LabelQuery} :
       /\ process(<<>>, criteriaType).err = NoError
       /\ process(<<>>, criteriaType).c = <<>>
  /\ \A k \in 1..Len(built) :
       built[k].pc = "done" =>
         /\ reqs[k].labelQuery = <<>>
              => BuiltResult(k) = AloneResult(process(reqs[k].fieldQuery, FieldQuery))
         /\ reqs[k].fieldQuery = <<>>
              => BuiltResult(k) = AloneResult(process(reqs[k].labelQuery, LabelQuery))

\* A request with two field segments and no label query has been built into
\* the two sorted criteria, and a request with neither input into none.
C11_Witness ==
  /\ built[1].pc = "done" /\ built[2].pc = "done"
  /\ reqs[1].labelQuery = <<>> /\ Len(built[1].criteria) = 2
  /\ built[1].err = NoError
  /\ built[1].criteria = Sorted(process(reqs[1].fieldQuery, FieldQuery).c)
  /\ reqs[2].fieldQuery = <<>>
  /\ built[2].err = NoError /\ built[2].criteria = <<>>

(***************************************************************************)
(* Runs of Validate                                                        *)
(***************************************************************************)

\* Bounds of the Validate runs: the number of pieces a numeric operand text
\* is made of, and the number of right operands of a criterion.
MaxNumPieces == 3
MaxOperands == 2

\* The pieces of the operand texts tried against the numeric guard.
NumberPieces ==
  { <<"1">>, <<"0">>, <<"-">>, <<"+">>, <<".">>, <<"e">>, <<"_">>, <<"0", "x">>, <<"p">>,
    <<"i", "n", "f">>, <<"a">> }

NumberTexts == UNION {{Concat(f) : f \in [1..n -> NumberPieces]} : n \in 0..MaxNumPieces}

\* Operand texts written out.
Abc == <<"a", "b", "c">>
Timestamp ==
  <<"2", "0", "2", "0", "-", "0", "1", "-", "0", "1", "T", "0", "0", ":", "0", "0",
    ":", "0", "0", "Z">>
TimestampOffset ==
  <<"2", "0", "2", "0", "-", "0", "2", "-", "2", "9", "T", "2", "3", ":", "5", "9",
    ":", "5", "9", ".", "5", "+", "0", "1", ":", "0", "0">>
TimestampShortHour ==
  <<"2", "0", "2", "0", "-", "0", "1", "-", "0", "1", "T", "1", ":", "0", "0", ":",
    "0", "0", "Z">>
TimestampCommaFraction ==
  <<"2", "0", "2", "0", "-", "0", "1", "-", "0", "1", "T", "0", "0", ":", "0", "0",
    ":", "0", "0", ",", "2", "5", "Z">>
TimestampNoZone ==
  <<"2", "0", "2", "0", "-", "0", "1", "-", "0", "1", "T", "0", "0", ":", "0", "0",
    ":", "0", "0">>
TimestampBadDay ==
  <<"2", "0", "2", "1", "-", "0", "2", "-", "2", "9", "T", "0", "0", ":", "0", "0",
    ":", "0", "0", "Z">>
TimestampBadOffset ==
  <<"2", "0", "2", "0", "-", "0", "1", "-", "0", "1", "T", "0", "0", ":", "0", "0",
    ":", "0", "0", "+", "2", "5", ":", "0", "0">>
DateOnly == <<"2", "0", "2", "0", "-", "0", "1", "-", "0", "1">>
NaNText == <<"N", "a", "N">>
InfinityText == <<"-", "I", "n", "f", "i", "n", "i", "t", "y">>
HexFloatText == <<"0", "x", "1", ".", "8", "p", "-", "2">>
LargeFloatText == <<"1", "e", "3", "0", "8">>
TooLargeFloatText == <<"1", "e", "3", "0", "9">>
BeyondInt64Text ==
  <<"9", "2", "2", "3", "3", "7", "2", "0", "3", "6", "8", "5", "4", "7", "7", "5",
    "8", "0", "8">>
PaddedNumber == <<" ", "1">>
\* A text of more than 21 digits just below 2^1024 - 2^970, and one above.
NearMaxFloatText ==
  <<"1", "7", "9", "7", "6", "9", "3", "1", "3", "4", "8", "6", "2", "3", "1", "5",
    "8", "0", "7", "9", "3", "0", "e", "2", "8", "7">>
BeyondMaxFloatText ==
  <<"1", "7", "9", "7", "6", "9", "3", "1", "3", "4", "8", "6", "2", "3", "1", "5",
    "8", "0", "7", "9", "3", "7", "3", "e", "2", "8", "6">>

QuotedOperands ==
  { Abc, Timestamp, TimestampOffset, TimestampShortHour, TimestampCommaFraction, TimestampNoZone, TimestampBadDay, TimestampBadOffset,
    DateOnly, NaNText, InfinityText, HexFloatText, LargeFloatText, TooLargeFloatText, BeyondInt64Text, PaddedNumber,
    NearMaxFloatText, BeyondMaxFloatText }

Age == <<"a", "g", "e">>

\* Criteria with one right operand, for the numeric guard: the four numeric
\* operators and two others, on a field and on a label, with the operand
\* texts written out; InitValidate adds the field criteria of these operators
\* with every number text.
GuardOperators ==
  { GreaterThanOperator, GreaterThanOrEqualOperator, LessThanOperator,
    LessThanOrEqualOperator, EqualsOperator, InOperator }

GuardCriteria ==
  { ByField(op, Age, <<text>>) : op \in GuardOperators, text \in QuotedOperands }
    \cup { ByLabel(op, Age, <<text>>) : op \in GuardOperators, text \in QuotedOperands }

\* The sequences of at most MaxOperands elements of a set.
OperandLists(S) == UNION {[1..n -> S] : n \in 0..MaxOperands}

\* Field and label criteria of every operator, with left operands with and
\* without the separator and right operands with and without a new line.
AllOperators ==
  { operators[k] : k \in 1..Len(operators) } \cup {NoOperator}

LeftOperands == { Age, <<"a", Separator, "b">>, <<"a", Separator>>, <<Separator>> }

PlainOperands == { <<"1">>, Abc, <<"x", "\n", "y">> }

QueryCriteria ==
  { newCriterion(leftOp, op, rightOp, type) :
      leftOp \in LeftOperands, op \in AllOperators,
      rightOp \in OperandLists(PlainOperands), type \in {FieldQuery, LabelQuery} }

\* Result criteria: the reserved left operands and two others, with the
\* operands the constructors give them and with others.
Name == <<"n", "a", "m", "e">>

ResultLeftOperands == { OrderBy, Limit, Name, <<"L", "i", "m", "i", "t">> }

ResultOperands ==
  { Name, AscOrder, DescOrder, <<"u", "p">>, <<"A", "S", "C">>, <<>>, <<"1">>, <<"0">>,
    <<"-", "1">>, <<"+", "5">>, <<"0", "7">>, <<"1", ".", "5">>, BeyondInt64Text }

ResultCriteria ==
  { newCriterion(leftOp, NoOperator, rightOp, ResultQuery) :
      leftOp \in ResultLeftOperands, rightOp \in OperandLists(ResultOperands) }

ValidateInputs == GuardCriteria \cup QueryCriteria \cup ResultCriteria

InitValidate ==
  /\ mallocHeader \in BOOLEAN
  /\ \/ \E c \in ValidateInputs : val = [c |-> c, pc |-> "call", err |-> NoError]
     \/ \E op \in GuardOperators, text \in NumberTexts :
          val = [c |-> ByField(op, Age, <<text>>), pc |-> "call", err |-> NoError]
  /\ arrays = <<>>
  /\ ctxs = <<>>
  /\ last = NoCall
  /\ proc = IdleProc
  /\ reqs = <<>>
  /\ built = <<>>
  /\ db = IdleDb
  /\ web = IdleWeb

\* c.Validate() is called and returns.
ValidateCall ==
  /\ val.pc = "call"
  /\ val' = [val EXCEPT !.pc = "done", !.err = Validate(val.c)]
  /\ UNCHANGED <<arrays, ctxs, last, proc, reqs, built, db, web, mallocHeader>>

NextValidate == ValidateCall

SpecValidate == InitValidate /\ [][NextValidate]_vars

(***************************************************************************)
(* Properties of Validate                                                  *)
(***************************************************************************)

Validated == val.pc = "done"

IsFieldOrLabel(c) == c.Type = FieldQuery \/ c.Type = LabelQuery

\* The error of the numeric guard for the criterion c.
GuardError(c) == Unsupported("right operand is not numeric or datetime", c.RightOp[1])

\* The text is an integer, a float or an RFC3339 time, as strconv.Atoi,
\* strconv.ParseFloat and time.Parse take them.
IsNumberOrTime(text) == AtoiOk(text) \/ ParseFloatOk(text) \/ isDateTime(text)

\* C12: for a field or label criterion with one right operand and a numeric
\* operator (gt, gte, lt, lte), Validate answers with the error of the
\* numeric guard exactly when the operand is neither an integer, nor a float,
\* nor an RFC3339 time, and with no error when it is one and the left
\* operand is free of the separator; `abc` is refused and
\* `2020-01-01T00:00:00Z` accepted; for the other operators the guard never
\* answers.
C12_NumericGuard ==
  (Validated /\ IsFieldOrLabel(val.c) /\ Len(val.c.RightOp) = 1) =>
    /\ IsNumeric(val.c.Operator) =>
         /\ val.err = GuardError(val.c) <=> ~IsNumberOrTime(val.c.RightOp[1])
         /\ (IsNumberOrTime(val.c.RightOp[1]) /\ ~ContainsRune(val.c.LeftOp, Separator))
              => val.err = NoError
         /\ val.c.RightOp[1] = Abc => val.err = GuardError(val.c)
         /\ (val.c.RightOp[1] = Timestamp /\ val.c.LeftOp = Age) => val.err = NoError
    /\ ~IsNumeric(val.c.Operator) => val.err.msg # GuardError(val.c).msg

\* Field(gt, "age", "2020-01-01T00:00:00Z") has been validated and accepted.
C12_Witness ==
  /\ Validated
  /\ val.c = ByField(GreaterThanOperator, Age, <<Timestamp>>)
  /\ val.err = NoError

\* Validate returned an error value: it neither accepted nor faulted.
Rejected == val.err.kind \in {"UnsupportedQueryError", "error"}

\* C13: for every field or label criterion whose operator is not
\* multivariate and whose number of right operands is not one (two or more,
\* or none), Validate returns an error and does not fault.
C13_ArityEnforced ==
  (Validated /\ IsFieldOrLabel(val.c) /\ ~IsMultiVariate(val.c.Operator)
     /\ Len(val.c.RightOp) # 1)
    => Rejected

\* The shapes of a result criterion: orderBy with a field and a direction,
\* limit with one positive integer.
IsOrderByShape(c) ==
  /\ c.LeftOp = OrderBy
  /\ Len(c.RightOp) = 2
  /\ c.RightOp[2] \in {AscOrder, DescOrder}

IsLimitShape(c) ==
  /\ c.LeftOp = Limit
  /\ Len(c.RightOp) = 1
  /\ AtoiOk(c.RightOp[1])
  /\ ~AtoiBelowOne(c.RightOp[1])

\* C14: Validate accepts a result criterion exactly when it is orderBy with
\* [field, direction], direction asc or desc, or limit with one positive
\* integer; every other result criterion is refused with an error, without
\* a fault.
C14_ResultShape ==
  (Validated /\ val.c.Type = ResultQuery) =>
    /\ (IsOrderByShape(val.c) \/ IsLimitShape(val.c)) => val.err = NoError
    /\ ~(IsOrderByShape(val.c) \/ IsLimitShape(val.c)) => Rejected

\* The invariants of the data model on a field or label criterion.
IsWellFormedQuery(c) ==
  /\ IsFieldOrLabel(c)
  /\ c.Operator \in {InOperator, NotInOperator} \/ Len(c.RightOp) = 1
  /\ c.Operator = EqualsOrNilOperator => c.Type = FieldQuery
  /\ c.Operator \in {GreaterThanOperator, GreaterThanOrEqualOperator, LessThanOperator,
                      LessThanOrEqualOperator}
       => IsNumberOrTime(c.RightOp[1])
  /\ ~ContainsRune(c.LeftOp, Separator)
  /\ \A k \in 1..Len(c.RightOp) : ~ContainsRune(c.RightOp[k], "\n")

\* C15: a criterion as ByField, ByLabel, OrderResultBy or LimitResultBy build
\* it that satisfies the invariants of the data model (one right operand
\* unless in or notin, eqornil on a field only, a numeric operand for gt, gte,
\* lt and lte, no separator in the left operand, no new line in a right
\* operand; direction asc or desc; a positive limit) passes Validate.
C15_WellFormedPasses ==
  (Validated /\ (\/ IsWellFormedQuery(val.c)
                 \/ val.c.Type = ResultQuery /\ IsOrderByShape(val.c)
                 \/ val.c.Type = ResultQuery /\ IsLimitShape(val.c)))
    => val.err = NoError

\* OrderResultBy("name", "desc") has been validated and accepted.
C15_Witness ==
  /\ Validated
  /\ val.c = OrderResultBy(Name, DescOrder)
  /\ val.err = NoError

(***************************************************************************)
(* Runs with the operator eqornil: Validate, process and AddCriteria       *)
(***************************************************************************)

\* Inputs of process with the operator eqornil.
NullableSegment == <<"a", " ", "e", "q", "o", "r", "n", "i", "l", " ", "1">>
NullableThenEquals ==
  <<"a", " ", "e", "q", "o", "r", "n", "i", "l", " ", "1", "|", "b", " ", "=", " ",
    "2">>
EqualsThenNullable ==
  <<"b", " ", "=", " ", "2", "|", "a", " ", "e", "q", "o", "r", "n", "i", "l", " ",
    "1">>
NullableList ==
  <<"a", " ", "e", "q", "o", "r", "n", "i", "l", " ", "[", "1", "|", "|", "2", "]">>
NullableNoOperand == <<"a", " ", "e", "q", "o", "r", "n", "i", "l", " ">>

NullableInputs ==
  { NullableSegment, NullableThenEquals, EqualsThenNullable, NullableList,
    NullableNoOperand, TwoSegments }

\* Lists AddCriteria is called with, with and without eqornil on a label.
FieldNil == ByField(EqualsOrNilOperator, KeyY, << <<"1">> >>)
LabelNil == ByLabel(EqualsOrNilOperator, KeyY, << <<"1">> >>)

NullableLists == { <<FieldNil>>, <<LabelNil>>, <<FieldX, LabelNil>>, <<LabelX>> }

InitNullableParse ==
  /\ mallocHeader \in BOOLEAN
  /\ proc \in {ProcessBegin(input, criteriaType) :
                 input \in NullableInputs, criteriaType \in {FieldQuery, LabelQuery}}
  /\ arrays = <<>>
  /\ ctxs = <<>>
  /\ last = NoCall
  /\ reqs = <<>>
  /\ built = <<>>
  /\ val = IdleVal
  /\ db = IdleDb
  /\ web = IdleWeb

\* A run is of Validate on one criterion, of process on one input, or of
\* AddCriteria calls from the context without criteria.
InitNullable == InitValidate \/ InitNullableParse \/ InitCarrier

NextNullable ==
  \/ ValidateCall
  \/ NextParse
  \/ \E h \in 1..Len(ctxs), newCriteria \in NullableLists :
       /\ last.n < MaxCalls
       /\ AddCriteria(h, newCriteria)

SpecNullable == InitNullable /\ [][NextNullable]_vars

IsLabelNullable(c) == c.Type = LabelQuery /\ c.Operator = EqualsOrNilOperator

NullableError ==
  Unsupported("nullable operations are supported only for field queries", <<>>)

\* C16: Validate returns an unsupported-query error for every label criterion
\* with the operator eqornil and accepts a field criterion with eqornil that
\* is valid otherwise; process never holds or returns a label criterion with
\* eqornil, and a merge with such an incoming criterion returns an error.
C16_NullableFieldOnly ==
  /\ (Validated /\ IsLabelNullable(val.c)) => val.err.kind = "UnsupportedQueryError"
  /\ (Validated /\ val.c.Type = FieldQuery /\ val.c.Operator = EqualsOrNilOperator
        /\ Len(val.c.RightOp) = 1
        /\ ~ContainsRune(val.c.LeftOp, Separator)
        /\ ~ContainsRune(val.c.RightOp[1], "\n"))
       => val.err = NoError
  /\ \A k \in 1..Len(proc.c) : ~IsLabelNullable(proc.c[k])
  /\ (proc.pc = "done" /\ proc.criteriaType = LabelQuery
        /\ proc.input \in {NullableSegment, NullableThenEquals, EqualsThenNullable})
       => proc.err = NullableError
  /\ (last.op = "AddCriteria"
        /\ \E k \in 1..Len(last.incoming) : IsLabelNullable(last.incoming[k]))
       => last.err.kind # "nil"

\* Validate has refused Label(eqornil, "age", "1") with the error of the
\* nullable check.
C16_Witness ==
  /\ Validated
  /\ val.c = ByLabel(EqualsOrNilOperator, Age, << <<"1">> >>)
  /\ val.err = NullableError

(***************************************************************************)
(* Forbidden characters                                                    *)
(***************************************************************************)

\* The text after the last separator of s (s itself when it has none).
RECURSIVE AfterLastSeparator(_)
AfterLastSeparator(s) ==
  IF ~ContainsRune(s, Separator) THEN s ELSE AfterLastSeparator(Tail(s))

\* C17: Validate returns an unsupported-query error for every field or label
\* criterion whose left operand holds the separator or one of whose right
\* operands holds a new line, and the error about the separator names the
\* text after the last separator of the left operand.
C17_ForbiddenCharacters ==
  (Validated /\ IsFieldOrLabel(val.c)) =>
    /\ (\/ ContainsRune(val.c.LeftOp, Separator)
        \/ \E k \in 1..Len(val.c.RightOp) : ContainsRune(val.c.RightOp[k], "\n"))
         => val.err.kind = "UnsupportedQueryError"
    /\ val.err.msg = "separator is not allowed in left operand"
         => val.err.arg = AfterLastSeparator(val.c.LeftOp)

(***************************************************************************)
(* The storage layer: statements built from filters and criteria           *)
(***************************************************************************)

\* The pieces of statement text the storage layer writes.
SelectAllFrom ==
  <<"S", "E", "L", "E", "C", "T", " ", "*", " ", "F", "R", "O", "M", " ">>

SelectText == <<"S", "E", "L", "E", "C", "T", " ">>

AllColumns == <<".", "*", ",">>

FromText == <<" ", "F", "R", "O", "M", " ">>

LeftJoinText == <<" ", "L", "E", "F", "T", " ", "J", "O", "I", "N", " ">>

OnText == <<" ", "O", "N", " ">>

DeleteFrom == <<"D", "E", "L", "E", "T", "E", " ", "F", "R", "O", "M", " ">>

WhereText == <<" ", "W", "H", "E", "R", "E", " ">>

AndText == <<" ", "A", "N", "D", " ">>

OrText == <<" ", "O", "R", " ">>

IsNullText == <<" ", "I", "S", " ", "N", "U", "L", "L">>

KeyColumn == <<".", "k", "e", "y", " ", "=", " ", "?", " ", "A", "N", "D", " ">>

ValColumn == <<".", "v", "a", "l", " ", "=", " ", "?">>

InText == <<"I", "N">>

NotInText == <<"N", "O", "T", " ", "I", "N">>

\* The double quote of a quoted column alias, as one character.
DoubleQuote == "(double quote)"

\* strings.Join(parts, sep)
RECURSIVE JoinWith(_, _)
JoinWith(parts, sep) ==
  IF parts = <<>> THEN <<>>
  ELSE IF Len(parts) = 1 THEN parts[1]
  ELSE parts[1] \o sep \o JoinWith(Tail(parts), sep)

\* The error of the older allow-list check, a query.UnsupportedQuery.
UnsupportedQuery(msg, arg) == Outcome("UnsupportedQuery", msg, arg)

\* The map availableColumns that the older check builds from the entity: the
\* db tag of every field of the struct, the empty tag of an untagged field
\* included. An entity is the sequence of the db tags of its fields.
AvailableColumns(baseEntity) == {baseEntity[k] : k \in 1..Len(baseEntity)}

\* The loop of the older check over the criteria: the first criterion whose
\* left operand is no column is refused, whatever its type.
RECURSIVE CheckEveryKey(_, _)
CheckEveryKey(availableColumns, criteria) ==
  IF criteria = <<>> THEN NoError
  ELSE IF Head(criteria).LeftOp \notin availableColumns
    THEN UnsupportedQuery("unsupported field query key", Head(criteria).LeftOp)
  ELSE CheckEveryKey(availableColumns, Tail(criteria))

\* validateFieldQueryParams(baseEntity, criteria), as listWithLabelsAndCriteria
\* calls it.
validateFieldQueryParamsOfEntity(baseEntity, criteria) ==
  CheckEveryKey(AvailableColumns(baseEntity), criteria)

\* The text of a db tag before its first comma: strings.Split(tag, ",")[0].
RECURSIVE BeforeComma(_)
BeforeComma(tag) ==
  IF tag = <<>> \/ Head(tag) = "," THEN <<>>
  ELSE <<Head(tag)>> \o BeforeComma(Tail(tag))

\* columnsByTags(tags): the set of column names of the tags.
columnsByTags(tags) == {BeforeComma(tags[k]) : k \in 1..Len(tags)}

\* validateFieldQueryParams(columns, criteria): the first field criterion
\* whose left operand is no column is refused; label and result criteria are
\* passed over.
RECURSIVE validateFieldQueryParams(_, _)
validateFieldQueryParams(columns, criteria) ==
  IF criteria = <<>> THEN NoError
  ELSE IF Head(criteria).Type = FieldQuery /\ Head(criteria).LeftOp \notin columns
    THEN Unsupported("unsupported field query key", Head(criteria).LeftOp)
  ELSE validateFieldQueryParams(columns, Tail(criteria))

\* A labels entity: the db tags of its fields (an embedded field holds the
\* tags of its own fields) and the columns its Label method returns.
LabelField(tag) == [embedded |-> FALSE, tags |-> <<tag>>]

\* The projection of one label column: ` <labels>.<tag> "<labels>.<tag>",`.
LabelProjection(labelsTableName, dbTag) ==
  <<" ">> \o labelsTableName \o <<".">> \o dbTag \o <<" ", DoubleQuote>>
    \o labelsTableName \o <<".">> \o dbTag \o <<DoubleQuote, ",">>

\* The projections of the fields from the k-th on.
RECURSIVE LabelProjections(_, _, _)
LabelProjections(fields, labelsTableName, k) ==
  IF k > Len(fields) THEN <<>>
  ELSE JoinWith([j \in 1..Len(fields[k].tags) |->
                   LabelProjection(labelsTableName, fields[k].tags[j])], <<>>)
         \o LabelProjections(fields, labelsTableName, k + 1)

\* The key columns of the join: Label() is asked only when the struct has a
\* field that is not embedded, and both names stay empty otherwise.
JoinColumns(labelsEntity) ==
  IF \E k \in 1..Len(labelsEntity.fields) : ~labelsEntity.fields[k].embedded
    THEN [primary |-> labelsEntity.primary, reference |-> labelsEntity.reference]
  ELSE [primary |-> <<>>, reference |-> <<>>]

\* The text with its last character cut off: baseQuery[:len(baseQuery)-1].
CutLast(s) == SubSeq(s, 1, Len(s) - 1)

\* constructBaseQueryForLabeledEntity(labelsEntity, baseTableName,
\* labelsTableName)
constructBaseQueryForLabeledEntity(labelsEntity, baseTableName, labelsTableName) ==
  CutLast(SelectText \o baseTableName \o AllColumns
            \o LabelProjections(labelsEntity.fields, labelsTableName, 1))
    \o FromText \o baseTableName \o LeftJoinText \o labelsTableName
    \o OnText \o baseTableName \o <<".">> \o JoinColumns(labelsEntity).primary
    \o <<" ", "=", " ">> \o labelsTableName \o <<".">>
    \o JoinColumns(labelsEntity).reference

\* One comparison of list: `key='value'`, or `key IS NULL` for the empty
\* value.
OrPair(key, value) ==
  IF value # <<>> THEN key \o <<"=", "'">> \o value \o <<"'">>
  ELSE key \o IsNullText

\* The comparisons of one key of the filter, joined by OR in parentheses.
AndPair(key, values) ==
  <<" ", "(">>
    \o JoinWith([k \in 1..Len(values) |-> OrPair(key, values[k])], OrText)
    \o <<")", " ">>

\* The statement of list(table, filter): a filter is a map from keys to value
\* lists, and order is the order in which the range loop visits its keys.
listQuery(table, filter, order) ==
  IF DOMAIN filter = {} THEN SelectAllFrom \o table
  ELSE SelectAllFrom \o table \o WhereText
         \o JoinWith([k \in 1..Len(order) |-> AndPair(order[k], filter[order[k]])],
                     AndText)

\* The orders in which a range loop may visit the keys of a map.
KeyOrders(keys) ==
  {o \in [1..Cardinality(keys) -> keys] :
     \A i, j \in 1..Cardinality(keys) : i # j => o[i] # o[j]}

\* The SQL text of an operator of the query language.
SqlOperator(op) ==
  CASE op = EqualsOperator -> <<"=">>
    [] op = NotEqualsOperator -> <<"!", "=">>
    [] op = GreaterThanOperator -> <<">">>
    [] op = GreaterThanOrEqualOperator -> <<">", "=">>
    [] op = LessThanOperator -> <<"<">>
    [] op = LessThanOrEqualOperator -> <<"<", "=">>
    [] op = InOperator -> InText
    [] op = NotInOperator -> NotInText
    [] op = EqualsOrNilOperator -> <<"=">>
    [] OTHER -> <<>>

\* The placeholders of the right operand of a criterion: one `?`, or one per
\* element in parentheses for a multivariate operator.
BindVariables(c) ==
  IF IsMultiVariate(c.Operator)
    THEN <<"(">> \o JoinWith([k \in 1..Len(c.RightOp) |-> <<"?">>], <<",", " ">>)
           \o <<")">>
  ELSE <<"?">>

\* The column of a field criterion: `<table>.<column>`.
ColumnOf(baseTableName, c) == baseTableName \o <<".">> \o c.LeftOp

\* The predicate of a field criterion.
FieldPredicate(baseTableName, c) ==
  IF IsNullable(c.Operator)
    THEN <<"(">> \o ColumnOf(baseTableName, c) \o <<" ", "=", " ", "?">> \o OrText
           \o ColumnOf(baseTableName, c) \o IsNullText \o <<")">>
  ELSE ColumnOf(baseTableName, c) \o <<" ">> \o SqlOperator(c.Operator) \o <<" ">>
         \o BindVariables(c)

\* The predicate of a label criterion: `<labels>.key = ? AND <labels>.val = ?`.
LabelPredicate(labelsTableName, c) ==
  labelsTableName \o KeyColumn \o labelsTableName \o ValColumn

\* The predicate of a criterion.
PredicateOf(baseTableName, labelsTableName, c) ==
  IF c.Type = LabelQuery THEN LabelPredicate(labelsTableName, c)
  ELSE FieldPredicate(baseTableName, c)

\* The bind parameters of a criterion, in the order of its placeholders: a
\* label criterion binds its key and its value.
ParametersOf(c) ==
  IF c.Type = LabelQuery THEN <<c.LeftOp>> \o c.RightOp ELSE c.RightOp

\* The statement and the parameters compiled from a base query and criteria:
\* the predicates in the order of the criteria, joined by AND, and the
\* parameters in the same order.
buildListQueryWithParams(baseQuery, baseTableName, labelsTableName, criteria) ==
  [query |->
     IF criteria = <<>> THEN baseQuery \o <<";">>
     ELSE baseQuery \o WhereText
            \o JoinWith([k \in 1..Len(criteria) |->
                           PredicateOf(baseTableName, labelsTableName, criteria[k])],
                        AndText)
            \o <<";">>,
   params |-> Concat([k \in 1..Len(criteria) |-> ParametersOf(criteria[k])]),
   err |-> NoError]

\* The decimal text of a natural number.
RECURSIVE Itoa(_)
Itoa(n) ==
  IF n < 10 THEN <<Printable[17 + n]>>
  ELSE Itoa(n \div 10) \o <<Printable[17 + (n % 10)]>>

\* The positions of the placeholders of a statement, in order.
Placeholders(query) ==
  SelectSeq([k \in 1..Len(query) |-> k], LAMBDA k : query[k] = "?")

\* The statement with its placeholders numbered: the text before the j-th
\* `?` followed by `$j`, for every placeholder, and the text after the last.
RebindAt(query, at) ==
  Concat([j \in 1..Len(at) |->
            SubSeq(query, IF j = 1 THEN 1 ELSE at[j - 1] + 1, at[j] - 1)
              \o <<"$">> \o Itoa(j)])
    \o SubSeq(query, IF at = <<>> THEN 1 ELSE at[Len(at)] + 1, Len(query))

\* db.Rebind(query): a database whose driver numbers its placeholders rewrites
\* them; any other database leaves the statement as it is.
Rebind(bindType, query) ==
  IF bindType = "dollar" THEN RebindAt(query, Placeholders(query)) ELSE query

\* The check of the deletion looking at the first criterion only.
CheckFirstCriterionOnly(criteria) ==
  IF criteria # <<>> /\ Head(criteria).Type # FieldQuery
    THEN Unsupported("conditional delete is only supported for field queries",
                     Head(criteria).LeftOp)
  ELSE NoError

\* The first criterion that is no field criterion is refused by the deletion.
RECURSIVE CheckFieldCriteriaOnly(_)
CheckFieldCriteriaOnly(criteria) ==
  IF criteria = <<>> THEN NoError
  ELSE IF Head(criteria).Type # FieldQuery
    THEN Unsupported("conditional delete is only supported for field queries",
                     Head(criteria).LeftOp)
  ELSE CheckFieldCriteriaOnly(Tail(criteria))

\* The check of a deletion after its criteria were found to be field
\* criteria: the allow-list of the entity.
DeleteChecked(entity, criteria, err) ==
  IF err # NoError THEN err
  ELSE validateFieldQueryParams(columnsByTags(entity), criteria)

\* The outcome of deleteAllByFieldCriteria(table, entity, criteria...) before
\* it executes anything: the error, or the statement and its parameters.
deleteAllByFieldCriteria(table, entity, criteria) ==
  IF DeleteChecked(entity, criteria, CheckFieldCriteriaOnly(criteria)) # NoError
    THEN [query |-> <<>>, params |-> <<>>,
          err |-> DeleteChecked(entity, criteria, CheckFieldCriteriaOnly(criteria))]
  ELSE buildListQueryWithParams(DeleteFrom \o table, table, <<>>, criteria)

\* The outcome of listByFieldCriteria(table, entity, criteria...) before it
\* executes anything.
listByFieldCriteria(table, entity, criteria) ==
  IF validateFieldQueryParams(columnsByTags(entity), criteria) # NoError
    THEN [query |-> <<>>, params |-> <<>>,
          err |-> validateFieldQueryParams(columnsByTags(entity), criteria)]
  ELSE buildListQueryWithParams(SelectAllFrom \o table, table, <<>>, criteria)

\* The outcome of listWithLabelsAndCriteria before it executes anything.
listWithLabelsAndCriteria(baseEntity, labelsEntity, baseTable, labelsTable, criteria) ==
  IF validateFieldQueryParamsOfEntity(baseEntity, criteria) # NoError
    THEN [query |-> <<>>, params |-> <<>>,
          err |-> validateFieldQueryParamsOfEntity(baseEntity, criteria)]
  ELSE buildListQueryWithParams(
         constructBaseQueryForLabeledEntity(labelsEntity, baseTable, labelsTable),
         baseTable, labelsTable, criteria)

(***************************************************************************)
(* Runs of the storage layer                                               *)
(***************************************************************************)

\* Bounds of the storage runs: the number of criteria of a call and the number
\* of values of one key of a filter.
MaxCriteria == 2
MaxFilterValues == 2

Id == <<"i", "d">>

PlatformId == <<"p", "l", "a", "t", "f", "o", "r", "m", "_", "i", "d">>

Ghost == <<"g", "h", "o", "s", "t">>

LabelKey == <<"l", "a", "b", "e", "l", "_", "k", "e", "y">>

KeyTag == <<"k", "e", "y">>

ValTag == <<"v", "a", "l">>

CreatedAt == <<"c", "r", "e", "a", "t", "e", "d", "_", "a", "t">>

UpdatedAt == <<"u", "p", "d", "a", "t", "e", "d", "_", "a", "t">>

VisibilityId == <<"v", "i", "s", "i", "b", "i", "l", "i", "t", "y", "_", "i", "d">>

TableName == <<"t", "a", "b", "l", "e", "_", "n", "a", "m", "e">>

LabelsTableName ==
  <<"l", "a", "b", "e", "l", "s", "_", "t", "a", "b", "l", "e", "_", "n", "a", "m",
    "e">>

ValueA == <<"v", "a", "l", "u", "e">>

ValueB == <<"o", "t", "h", "e", "r">>

QuotedValue == <<"x", "'", " ", "O", "R", " ", "'", "x", "'", "=", "'", "x">>

\* The entity of the calls, by the db tags of its fields, and its labels
\* entity.
Visibility == <<Id, PlatformId>>

VisibilityLabel ==
  [fields |-> <<LabelField(Id), LabelField(KeyTag), LabelField(ValTag),
                LabelField(CreatedAt), LabelField(UpdatedAt),
                LabelField(VisibilityId)>>,
   primary |-> Id, reference |-> VisibilityId]

\* The field criteria of the calls: on columns of the entity and on a key
\* that is no column, with one operand per single-value operator.
FieldCriteria ==
  {ByField(EqualsOperator, PlatformId, <<v>>) : v \in {ValueA, ValueB}}
    \cup {ByField(EqualsOrNilOperator, Id, <<v>>) : v \in {ValueA, ValueB}}
    \cup {ByField(EqualsOperator, Ghost, <<ValueA>>),
          ByField(InOperator, Id, <<ValueA, ValueB>>),
          ByField(NotEqualsOperator, Id, <<QuotedValue>>)}

\* The label criteria of the calls: a key and a value, the key being a column
\* of the entity or not.
LabelCriteria ==
  {ByLabel(EqualsOperator, LabelKey, <<v>>) : v \in {ValueA, ValueB}}
    \cup {ByLabel(EqualsOperator, PlatformId, <<ValueA>>)}

\* The lists of at most MaxCriteria criteria of S.
CriteriaLists(S) == UNION {[1..n -> S] : n \in 0..MaxCriteria}

\* The filters of list: some keys, each with one value or more; the empty
\* value asks for NULL.
FilterKeys == {Id, PlatformId}

FilterValues == {ValueA, ValueB, <<>>, QuotedValue}

FilterValueLists == UNION {[1..n -> FilterValues] : n \in 1..MaxFilterValues}

Filters == UNION {[keys -> FilterValueLists] : keys \in SUBSET FilterKeys}

\* The conventions of the database for placeholders.
BindTypes == {"question", "dollar"}

\* A call of the storage layer about to run.
CriteriaCall(op, criteria, bindType) ==
  [IdleDb EXCEPT !.pc = "call", !.op = op, !.criteria = criteria,
                 !.bindType = bindType]

FilterCall(filter) == [IdleDb EXCEPT !.pc = "call", !.op = "list", !.filter = filter]

StorageCalls ==
  {CriteriaCall("listWithLabelsAndCriteria", criteria, bindType) :
     criteria \in CriteriaLists(FieldCriteria \cup LabelCriteria),
     bindType \in BindTypes}
    \cup {CriteriaCall("listByFieldCriteria", criteria, bindType) :
            criteria \in CriteriaLists(FieldCriteria), bindType \in BindTypes}
    \cup {CriteriaCall("deleteAllByFieldCriteria", criteria, bindType) :
            criteria \in CriteriaLists(FieldCriteria \cup LabelCriteria),
            bindType \in BindTypes}
    \cup {FilterCall(filter) : filter \in Filters}

InitStorage ==
  /\ mallocHeader \in BOOLEAN
  /\ db \in StorageCalls
  /\ arrays = <<>>
  /\ ctxs = <<>>
  /\ last = NoCall
  /\ proc = IdleProc
  /\ reqs = <<>>
  /\ built = <<>>
  /\ val = IdleVal
  /\ web = IdleWeb

\* The call returns err without having executed a statement.
Refused(err) == [db EXCEPT !.pc = "done", !.err = err]

\* The call hands the statement and its parameters to the database, which
\* executes it.
Executed(query, params) ==
  [db EXCEPT !.pc = "done", !.executedQuery = query, !.queryArgs = params,
             !.calls = @ + 1, !.err = NoError]

\* The call ends with its compiled outcome: refused, or rebound and executed.
Finished(compiled) ==
  IF compiled.err # NoError THEN Refused(compiled.err)
  ELSE Executed(Rebind(db.bindType, compiled.query), compiled.params)

\* listWithLabelsAndCriteria(ctx, db, Visibility{}, &VisibilityLabel{},
\* baseTable, labelsTable, criteria)
ListWithLabelsAndCriteria ==
  /\ db.pc = "call"
  /\ db.op = "listWithLabelsAndCriteria"
  /\ \E compiled \in {listWithLabelsAndCriteria(Visibility, VisibilityLabel,
                        TableName, LabelsTableName, db.criteria)} :
       db' = Finished(compiled)
  /\ UNCHANGED <<arrays, ctxs, last, proc, reqs, built, val, web, mallocHeader>>

\* list(ctx, db, table, filter, dtos): the statement is executed as built,
\* with no parameters.
List ==
  /\ db.pc = "call"
  /\ db.op = "list"
  /\ \E order \in KeyOrders(DOMAIN db.filter) :
       db' = Executed(listQuery(TableName, db.filter, order), <<>>)
  /\ UNCHANGED <<arrays, ctxs, last, proc, reqs, built, val, web, mallocHeader>>

\* listByFieldCriteria(ctx, db, table, Visibility{}, criteria...)
ListByFieldCriteria ==
  /\ db.pc = "call"
  /\ db.op = "listByFieldCriteria"
  /\ \E compiled \in {listByFieldCriteria(TableName, Visibility, db.criteria)} :
       db' = Finished(compiled)
  /\ UNCHANGED <<arrays, ctxs, last, proc, reqs, built, val, web, mallocHeader>>

\* deleteAllByFieldCriteria(ctx, db, table, Visibility{}, criteria...)
DeleteAllByFieldCriteria ==
  /\ db.pc = "call"
  /\ db.op = "deleteAllByFieldCriteria"
  /\ \E compiled \in {deleteAllByFieldCriteria(TableName, Visibility, db.criteria)} :
       db' = Finished(compiled)
  /\ UNCHANGED <<arrays, ctxs, last, proc, reqs, built, val, web, mallocHeader>>

NextStorage ==
  \/ ListWithLabelsAndCriteria
  \/ List
  \/ ListByFieldCriteria
  \/ DeleteAllByFieldCriteria

SpecStorage == InitStorage /\ [][NextStorage]_vars

(***************************************************************************)
(* Properties of the storage layer                                         *)
(***************************************************************************)

StorageDone == db.pc = "done"

IsListing == db.op \in {"listWithLabelsAndCriteria", "listByFieldCriteria"}

IsDeletion == db.op = "deleteAllByFieldCriteria"

\* Some field criterion of the criteria has a left operand that is no column
\* of the entity.
OffListField(criteria) ==
  \E k \in 1..Len(criteria) :
    /\ criteria[k].Type = FieldQuery
    /\ criteria[k].LeftOp \notin columnsByTags(Visibility)

IsUnsupportedField(err) ==
  /\ err.kind \in {"UnsupportedQuery", "UnsupportedQueryError"}
  /\ err.msg = "unsupported field query key"

\* C18: a listing or deletion by criteria fails, having executed no
\* statement, when some field criterion has a left operand that is no column
\* of the entity, and with the unsupported-field error only then; a listing
\* fails with that error exactly then and succeeds otherwise, label criteria
\* never being checked against the columns.
C18_AllowList ==
  (StorageDone /\ (IsListing \/ IsDeletion)) =>
    /\ OffListField(db.criteria) => (db.err # NoError /\ db.calls = 0)
    /\ IsUnsupportedField(db.err) => OffListField(db.criteria)
    /\ (IsListing /\ OffListField(db.criteria)) => IsUnsupportedField(db.err)
    /\ (IsListing /\ ~OffListField(db.criteria)) =>
         (db.err = NoError /\ db.calls = 1)

HasLabelCriterion(criteria) ==
  \E k \in 1..Len(criteria) : criteria[k].Type = LabelQuery

\* C19: deleteAllByFieldCriteria fails with an error and executes no
\* statement whenever its criteria include a label criterion, and with no
\* criteria at all it executes `DELETE FROM <table>;`.
C19_LabelDeleteRejected ==
  (StorageDone /\ IsDeletion) =>
    /\ HasLabelCriterion(db.criteria) =>
         (db.err # NoError /\ db.calls = 0 /\ db.executedQuery = <<>>)
    /\ db.criteria = <<>> =>
         /\ db.err = NoError
         /\ db.calls = 1
         /\ db.executedQuery = DeleteFrom \o TableName \o <<";">>
         /\ db.queryArgs = <<>>

\* A deletion by a field criterion on a column followed by a label criterion
\* has been refused.
C19_Witness ==
  /\ StorageDone
  /\ IsDeletion
  /\ db.criteria = <<ByField(EqualsOperator, PlatformId, <<ValueA>>),
                     ByLabel(EqualsOperator, LabelKey, <<ValueA>>)>>
  /\ db.err.kind = "UnsupportedQueryError"
  /\ db.calls = 0

\* The text holds the piece somewhere.
ContainsText(text, piece) ==
  \E k \in 1..(Len(text) - Len(piece) + 1) :
    SubSeq(text, k, k + Len(piece) - 1) = piece

\* The operand values of the call: the values of its filter, or the right
\* operands of its criteria.
OperandValues ==
  IF db.op = "list"
    THEN UNION {{db.filter[key][j] : j \in 1..Len(db.filter[key])} :
                  key \in DOMAIN db.filter}
  ELSE UNION {{db.criteria[k].RightOp[j] : j \in 1..Len(db.criteria[k].RightOp)} :
                k \in 1..Len(db.criteria)}

\* The criteria with every right operand replaced by one and the same value.
BlankCriteria(criteria) ==
  [k \in 1..Len(criteria) |->
     [criteria[k] EXCEPT !.RightOp = [j \in 1..Len(criteria[k].RightOp) |-> ValueA]]]

\* The filter with every value replaced by one and the same value.
BlankFilter(filter) ==
  [key \in DOMAIN filter |-> [j \in 1..Len(filter[key]) |-> ValueA]]

\* The statement text the call produces for the given criteria or filter,
\* for some order of the keys of the filter.
IsTextOf(text, criteria, filter) ==
  CASE db.op = "list" ->
         \E order \in KeyOrders(DOMAIN filter) :
           text = listQuery(TableName, filter, order)
    [] db.op = "listWithLabelsAndCriteria" ->
         text = Rebind(db.bindType,
                       listWithLabelsAndCriteria(Visibility, VisibilityLabel, TableName,
                                                 LabelsTableName, criteria).query)
    [] db.op = "listByFieldCriteria" ->
         text = Rebind(db.bindType,
                       listByFieldCriteria(TableName, Visibility, criteria).query)
    [] OTHER ->
         text = Rebind(db.bindType,
                       deleteAllByFieldCriteria(TableName, Visibility, criteria).query)

\* C20: a statement executed for a listing or a deletion holds none of the
\* operand values of the call in its text, every operand value is among its
\* bind parameters, and its text is the text of the same call with other
\* operand values.
C20_ParameterBinding ==
  (StorageDone /\ db.calls = 1) =>
    /\ \A v \in OperandValues : v # <<>> => ~ContainsText(db.executedQuery, v)
    /\ \A v \in OperandValues :
         \E k \in 1..Len(db.queryArgs) : db.queryArgs[k] = v
    /\ IsTextOf(db.executedQuery, BlankCriteria(db.criteria), BlankFilter(db.filter))

(***************************************************************************)
(* OIDCLabelCriteriaFilter.Run                                             *)
(***************************************************************************)

\* claims[claimKey] of a Go map: the empty string when the key is absent.
ClaimValue(claims, claimKey) ==
  IF claimKey \in DOMAIN claims THEN claims[claimKey] ELSE <<>>

\* The criterion the loop of Run builds for one claim key.
ClaimCriterion(keys, claims, claimKey) ==
  ByLabel(EqualsOperator, keys[claimKey], <<ClaimValue(claims, claimKey)>>)

\* One iteration of the loop of Run after its AddCriteria call: a run-time
\* fault in AddCriteria unwinds through Run, which has no recover; an error
\* returned ends the loop with the error Run wraps it in; otherwise the loop
\* goes on from the context returned.
RECURSIVE RunLoop(_, _, _, _, _)
RunAdded(merged, criteria, keys, claims, rest) ==
  IF merged.err.kind = "panic"
  THEN [arrays |-> merged.arrays, criteria |-> NilSlice, added |-> FALSE, err |-> merged.err]
  ELSE IF merged.err.kind # "nil"
  THEN [arrays |-> merged.arrays, criteria |-> NilSlice, added |-> FALSE,
        err |-> Outcome("error", "could not add label critaria", merged.err.msg)]
  ELSE RunLoop(merged.arrays, merged.result, keys, claims, rest)

\* The loop of Run over the claim keys in the order the map yields them,
\* from the criteria slice of the context held so far: AddCriteria reads it
\* with CriteriaForContext and merges the one criterion of the claim key.
RunLoop(arrs, criteria, keys, claims, order) ==
  IF order = <<>>
  THEN [arrays |-> arrs, criteria |-> criteria, added |-> TRUE, err |-> NoError]
  ELSE RunAdded(mergeCriteria(arrs, criteria, <<ClaimCriterion(keys, claims, Head(order))>>),
                criteria, keys, claims, Tail(order))

\* IsTokenData holding for every user, whatever its data.
IsTokenDataOfAnyUser(user) == user # "none"

\* Whether the context holds a user whose Data is httpsec.TokenData.
IsTokenData(user) == user \in {"token", "unreadable"}

\* next.Handle(request) with the request Run was given.
HandleUnchanged(w) == [w EXCEPT !.pc = "done", !.handled = @ + 1, !.next = w.ctx]

\* Run returning the error of tokenData.Claims without calling next.
ClaimsFailed(w) ==
  [w EXCEPT !.pc = "done",
            !.err = Outcome("error", "could not find ZID in token claims", <<>>)]

\* Run after its loop: the error the loop returned or the fault that ended
\* it (Run then returns nothing and next is not invoked), or next.Handle
\* with the request carrying the context the loop ended with, which is the
\* request's own context when the filter maps no claim.
RunFinished(w, out, ctxCount) ==
  IF out.err.kind # "nil" THEN [w EXCEPT !.pc = "done", !.err = out.err]
  ELSE [w EXCEPT !.pc = "done", !.handled = @ + 1,
                 !.next = IF w.keys = <<>> THEN w.ctx ELSE ctxCount + 1]

\* The contexts after the loop of Run: the context the last AddCriteria call
\* returned when every call succeeded and there was one.
RunContexts(cs, w, out) ==
  IF out.err.kind = "nil" /\ w.keys # <<>>
  THEN Append(cs, [set |-> TRUE, criteria |-> out.criteria])
  ELSE cs

\* Run(request, next): the whole handler, for the user, the claims and the
\* filter configuration recorded in web.
Run ==
  /\ web.pc = "run"
  /\ IF ~IsTokenData(web.user)
     THEN /\ web' = HandleUnchanged(web)
          /\ UNCHANGED <<arrays, ctxs, mallocHeader>>
     ELSE IF web.user = "unreadable"
     THEN /\ web' = ClaimsFailed(web)
          /\ UNCHANGED <<arrays, ctxs, mallocHeader>>
     ELSE \E order \in KeyOrders(DOMAIN web.keys) :
            \E out \in {RunLoop(arrays, CriteriaForContext(ctxs[web.ctx]),
                                web.keys, web.claims, order)} :
              /\ arrays' = out.arrays
              /\ ctxs' = RunContexts(ctxs, web, out)
              /\ web' = RunFinished(web, out, Len(ctxs))
  /\ UNCHANGED <<last, proc, reqs, built, val, db, mallocHeader>>

\* The inputs of the filter runs: two claim keys, the label keys they may be
\* mapped to (one of them equal to a field key, one of them the separator
\* alone, in which Validate finds no key), claim values (one of them
\* with a character Validate refuses), and the query parameters of the
\* requests whose criteria BuildCriteriaFromRequest has put in the context.
ClaimZid == <<"z", "i", "d">>
ClaimSub == <<"s", "u", "b">>
TenantKey == <<"t">>
ClaimKeys == {ClaimZid, ClaimSub}
MappedLabelKeys == {TenantKey, KeyX, <<Separator>>}
ClaimValues == { <<"1">>, <<"2">>, <<"a", "\n">> }
FieldParams == { <<>>, <<"x", " ", "=", " ", "1">>, <<"y", " ", "=", " ", "1", "|", "x", " ", "=", " ", "1">> }
LabelParams == { <<>>, <<"t", " ", "=", " ", "2">>, <<"x", " ", "=", " ", "1">> }
Users == {"none", "other", "token", "unreadable"}

\* The maps over some of the claim keys.
ClaimMaps(values) == UNION {[d -> values] : d \in SUBSET ClaimKeys}

\* A request reaches the filter with the background context or with the
\* criteria of its query parameters in its context, the slice having spare
\* unused capacity.
InitFilter ==
  /\ mallocHeader \in BOOLEAN
  /\ \/ /\ arrays = <<>>
        /\ ctxs = <<Background>>
     \/ \E fq \in FieldParams, lq \in LabelParams, spare \in 0..MaxSpare :
          \E r \in BuildCriteriaFromRequest([fieldQuery |-> fq, labelQuery |-> lq]) :
            \E made \in {NewSlice(<<>>, r.criteria, spare)} :
              /\ arrays = made.arrays
              /\ ctxs = <<[set |-> TRUE, criteria |-> made.slice]>>
  /\ \E user \in Users, keys \in ClaimMaps(MappedLabelKeys), claims \in ClaimMaps(ClaimValues) :
       web = [pc |-> "run", user |-> user, claims |-> claims, keys |-> keys, ctx |-> 1,
              before |-> Criteria(1), handled |-> 0, next |-> 0, err |-> NoError]
  /\ last = NoCall
  /\ proc = IdleProc
  /\ reqs = <<>>
  /\ built = <<>>
  /\ val = IdleVal
  /\ db = IdleDb

NextFilter == Run

SpecFilter == InitFilter /\ [][NextFilter]_vars

(***************************************************************************)
(* Properties of the filter                                                *)
(***************************************************************************)

FilterDone == web.pc = "done"

\* The list holds a label criterion with the equality operator, the key and
\* the one value.
HasLabelEquality(criteria, key, value) ==
  \E k \in 1..Len(criteria) :
    /\ criteria[k].Type = LabelQuery
    /\ criteria[k].Operator = EqualsOperator
    /\ criteria[k].LeftOp = key
    /\ criteria[k].RightOp = <<value>>

\* The criteria the request had in its context hold a label criterion on a
\* label key the filter maps a claim to.
RequestHoldsMappedLabel ==
  \E claimKey \in DOMAIN web.keys, k \in 1..Len(web.before) :
    /\ web.before[k].Type = LabelQuery
    /\ web.before[k].LeftOp = web.keys[claimKey]

\* C21: when Run has returned for a user with token data, next was invoked
\* at most once and only with a context whose criteria hold, for every claim
\* key the filter maps, a label equality criterion on the mapped label key
\* with the claim's value; and when the request's context already held a
\* label criterion on a mapped label key, Run returned an error (a run-time
\* fault is no returned error) and did not invoke next.
C21_IdentityLabelsEnforced ==
  (FilterDone /\ IsTokenData(web.user)) =>
    /\ web.handled <= 1
    /\ web.handled = 1 =>
         /\ web.err.kind = "nil"
         /\ \A claimKey \in DOMAIN web.keys :
              HasLabelEquality(Criteria(web.next), web.keys[claimKey],
                               ClaimValue(web.claims, claimKey))
    /\ RequestHoldsMappedLabel => (web.err.kind = "error" /\ web.handled = 0)

\* The list is in the order sort.Sort(ByLeftOp(criteria)) leaves: no
\* criterion is followed by one with a smaller left operand.
IsSortedByLeftOp(criteria) ==
  \A k \in 1..(Len(criteria) - 1) : ~Less(criteria[k + 1], criteria[k])

\* C22: the criteria read with CriteriaForContext from any context, those
\* of the request as well as those Run passed to next after AddCriteria, are
\* sorted by left operand.
C22_SortedByLeftOp ==
  \A h \in 1..Len(ctxs) : IsSortedByLeftOp(Criteria(h))

\* What a call may answer when every error it returns is a
\* util.UnsupportedQueryError: no error, such an error, or a run-time fault,
\* which is no returned error.
NoPlainError(err) == err.kind \in {"nil", "UnsupportedQueryError", "panic"}

\* C23: no error returned by Validate, by AddCriteria (and so mergeCriteria)
\* or by process is of another kind than util.UnsupportedQueryError, a
\* limit criterion whose operand is not an integer included.
C23_ErrorsAreUnsupportedQuery ==
  /\ val.pc = "done" => NoPlainError(val.err)
  /\ NoPlainError(last.err)
  /\ proc.pc = "done" => NoPlainError(proc.err)

(***************************************************************************)
(* Properties of segment and list-element boundaries                       *)
(***************************************************************************)

\* C24: a separator neither preceded by a backslash nor followed by another
\* separator ends the segment: `a = 1|b = 2` yields a = 1 and b = 2; and so
\* does the separator behind an escaped separator: `name = foo\||b = 1`
\* yields the two criteria name = `foo|` and b = 1.
C24_SegmentTermination ==
  /\ (Returned /\ proc.input = TwoSegments)
       => /\ proc.err.kind = "nil"
          /\ proc.c = << newCriterion(<<"a">>, EqualsOperator, << <<"1">> >>, proc.criteriaType),
                         newCriterion(<<"b">>, EqualsOperator, << <<"2">> >>, proc.criteriaType) >>
  /\ (Returned /\ proc.input = EscapedThenSegment)
       => /\ proc.err.kind = "nil"
          /\ proc.c = << newCriterion(Name, EqualsOperator, << <<"f", "o", "o", Separator>> >>,
                                      proc.criteriaType),
                         newCriterion(<<"b">>, EqualsOperator, << <<"1">> >>, proc.criteriaType) >>

\* The criterion of the list segment `k <operator> [e1||e2||...]`.
ListCriterion(operator, elements) ==
  newCriterion(<<"k">>, operator, elements, proc.criteriaType)

\* C25: inside the brackets of an in or notin operand a doubled separator
\* splits the operand into elements without ending the segment, so that
\* `k in [a||b||c]` yields one criterion with the right operands a, b, c;
\* the single separator behind the closing bracket ends the segment, so that
\* `k in [a||b]|n = v` yields that criterion and then n = v.
C25_ListElementBoundary ==
  (Returned /\ proc.input \in ListInputs) =>
    \A operator \in {InOperator, NotInOperator}, elements \in ElementLists :
      /\ proc.input = ListSegment(operator, elements)
           => /\ proc.err.kind = "nil"
              /\ proc.c = <<ListCriterion(operator, elements)>>
      /\ proc.input = ListSegment(operator, elements) \o NextSegment
           => /\ proc.err.kind = "nil"
              /\ proc.c = << ListCriterion(operator, elements),
                             newCriterion(<<"n">>, EqualsOperator, << <<"v">> >>,
                                          proc.criteriaType) >>

(***************************************************************************)
(* Properties of the segments of an input                                  *)
(***************************************************************************)

\* The segments of an input: the texts between its separators, empty ones
\* included.
RECURSIVE SegmentsFrom(_, _, _)
SegmentsFrom(s, cur, acc) ==
  IF s = <<>> THEN Append(acc, cur)
  ELSE IF s[1] = Separator THEN SegmentsFrom(Tail(s), <<>>, Append(acc, cur))
  ELSE SegmentsFrom(Tail(s), Append(cur, s[1]), acc)

Segments(input) == SegmentsFrom(input, <<>>, <<>>)

\* Every separator of the input delimits segments: none is escaped and none
\* stands next to another.
SeparatorsDelimit(input) ==
  \A k \in 1..Len(input) :
    input[k] = Separator =>
      /\ k > 1 => input[k - 1] \notin {Backslash, Separator}

\* An operator between operand separators starts at the k-th character.
OperatorTokenAt(segment, k) ==
  \E n \in 1..Len(operators) :
    HasPrefix(SubSeq(segment, k, Len(segment)),
              <<OperandSeparator>> \o OpText(operators[n]) \o <<OperandSeparator>>)

\* The segment holds no operator token, or its left operand is empty.
IsMalformedSegment(segment) ==
  \/ ~\E k \in 1..Len(segment) : OperatorTokenAt(segment, k)
  \/ OperatorTokenAt(segment, 1)

\* C26: for a non-empty input whose separators all delimit segments,
\* process does not succeed when one of the segments, be it the first, a
\* middle or the last one, holds no operator token or has an empty left
\* operand; and when process succeeds it returns as many criteria as the
\* input has segments.
C26_MalformedReported ==
  (Returned /\ proc.input # <<>> /\ SeparatorsDelimit(proc.input)) =>
    /\ (\E k \in 1..Len(Segments(proc.input)) :
          IsMalformedSegment(Segments(proc.input)[k]))
         => proc.err.kind # "nil"
    /\ proc.err.kind = "nil" => Len(proc.c) = Len(Segments(proc.input))

(***************************************************************************)
(* Properties of the result keys                                           *)
(***************************************************************************)

\* How many result criteria of the list have the left operand.
ResultKeyCount(criteria, key) ==
  Cardinality({k \in 1..Len(criteria) :
                 criteria[k].Type = ResultQuery /\ criteria[k].LeftOp = key})

\* C27: no context returned by AddCriteria holds two result criteria with
\* the left operand orderBy, nor two with the left operand limit; and an
\* AddCriteria call that brings such a criterion to a context already
\* holding one with the same left operand fails.
C27_ReservedKeysOnce ==
  \A key \in {OrderBy, Limit} :
    /\ \A h \in 1..Len(ctxs) : ResultKeyCount(Criteria(h), key) <= 1
    /\ (/\ last.op = "AddCriteria"
        /\ ResultKeyCount(last.existing, key) > 0
        /\ ResultKeyCount(last.incoming, key) > 0)
         => last.err.kind # "nil"

(***************************************************************************)
(* Properties of the criteria process returns                              *)
(***************************************************************************)

\* The 0-based offsets at or after from at which an operator token starts.
TokenOffsets(input, from) ==
  {p \in from..(Len(input) - 1) : OperatorTokenAt(input, p + 1)}

\* The text between the offset from and the first operator token at or
\* after it, the whole rest when there is none.
TextBeforeFirstToken(input, from) ==
  IF TokenOffsets(input, from) = {} THEN Slice(input, from, Len(input))
  ELSE Slice(input, from,
             CHOOSE p \in TokenOffsets(input, from) :
               \A q \in TokenOffsets(input, from) : p <= q)

\* The shape of a criterion process returns.
IsParserCriterion(c, criteriaType) ==
  /\ c.LeftOp # <<>>
  /\ \E n \in 1..Len(operators) : c.Operator = operators[n]
  /\ c.Type = criteriaType
  /\ Len(c.RightOp) >= 1
  /\ Validate(c).kind = "nil"

\* C28: every criterion process has collected, and so every criterion it
\* returns without error, has a non-empty left operand, one of the nine
\* operators, the type passed to process, at least one right operand, and
\* passes Validate; each criterion is appended behind those of the earlier
\* segments, when its segment has been read, and its left operand is the
\* text between the boundary j of the previous segment and the first
\* operator token behind that boundary.
C28_ParserOutput ==
  [][/\ proc'.err.kind = "nil" =>
          /\ \A k \in 1..Len(proc'.c) : IsParserCriterion(proc'.c[k], proc.criteriaType)
          /\ Len(proc'.c) \in {Len(proc.c), Len(proc.c) + 1}
          /\ SubSeq(proc'.c, 1, Len(proc.c)) = proc.c
     /\ (proc'.pc = "done" /\ proc'.err.kind = "nil" /\ proc.input # <<>>) => Len(proc'.c) >= 1
     /\ Len(proc'.c) = Len(proc.c) + 1 =>
          /\ proc'.c[Len(proc'.c)].LeftOp = TextBeforeFirstToken(proc.input, proc.j)
          /\ proc'.j > proc.j]_vars

(***************************************************************************)
(* Properties of the filter for users without token data                   *)
(***************************************************************************)

\* C29: when the request's context holds no user, or a user whose data is
\* not token data, Run invokes next exactly once, with the request as it
\* came, and returns what next returns: the criteria read from the context
\* next is given are those the request had before Run, no context and no
\* criterion has been added, and no label criterion other than the
\* request's own is among them.
C29_PassThrough ==
  (FilterDone /\ web.user \in {"none", "other"}) =>
    /\ web.handled = 1
    /\ web.next = web.ctx
    /\ web.err.kind = "nil"
    /\ Criteria(web.next) = web.before
    /\ Len(ctxs) = 1
    /\ \A k \in 1..Len(Criteria(web.next)) :
         Criteria(web.next)[k].Type = LabelQuery =>
           \E m \in 1..Len(web.before) : web.before[m] = Criteria(web.next)[k]

\* Run has passed on the request of a user without token data, for a filter
\* that maps a claim and a request that came with a label criterion.
C29_Witness ==
  /\ FilterDone
  /\ web.user = "other"
  /\ web.keys # <<>>
  /\ web.handled = 1
  /\ \E k \in 1..Len(web.before) : web.before[k].Type = LabelQuery

(***************************************************************************)
(* Termination of process                                                  *)
(***************************************************************************)

\* process run to its end: the goroutine calling it keeps executing it.
SpecParseLive == SpecParse /\ WF_vars(NextParse)

\* An iteration of the scan loop moves i forward by at least one position,
\* also when it has consumed a segment, and never moves j backwards.
LoopAdvances ==
  (proc.pc = "loop" /\ proc'.pc = "loop") =>
    /\ proc'.i >= proc.i + 1
    /\ proc'.j >= proc.j

\* C30: on every input process comes to its end, and it ends by returning a
\* result or an error, not with a run-time fault; every iteration of its
\* loop moves the scan index forward and the index never moves backwards.
C30_Terminates ==
  /\ <>Returned
  /\ [](Returned => proc.err.kind \in {"nil", "UnsupportedQueryError", "error"})
  /\ [][LoopAdvances]_vars

====
